---- MODULE Spec2Model ----
(***************************************************************************)
(* Causal-and-pattern discovery engine of metabolic-story-teller.          *)
(*                                                                         *)
(*   backend/app/services/pcmci_service.py   PCMCIAnalyzer                 *)
(*   backend/app/services/stumpy_service.py  StumpyPatternDetector         *)
(*   backend/app/tasks_ml.py, tasks.py       tasks persisting links        *)
(*                                                                         *)
(* Number representation.  Floats are fixed point:                         *)
(*   - a correlation / strength is an integer number of hundredths         *)
(*     (-100 .. 100), rounded away from zero and equal to +-100 only when  *)
(*     the correlation is exactly +-1, so the comparisons the code makes   *)
(*     (> 0.3, > 0.1, == 1) have the same outcome on the representation;   *)
(*   - a p-value is an integer number of thousandths, floored to the grid  *)
(*     0, 10, 50, 100, so that p < 0.01, p < 0.05 and p < 0.10 have the    *)
(*     same outcome on the representation;                                 *)
(*   - NaN / None is the sentinel NaN, every comparison with it is false.  *)
(***************************************************************************)
EXTENDS Integers, Sequences, FiniteSets, TLC

VARIABLES
    \* ---- PCMCIAnalyzer.analyze_causality -------------------------------
    data,                 \* the caller's table: sequence of rows [date, vals]
    variables,            \* requested variable names (a list)
    min_data_points,      \* argument
    tau_max,              \* self.tau_max
    alpha_level,          \* self.alpha_level, thousandths
    use_fallback,         \* self.use_fallback
    TIGRAMITE_AVAILABLE,  \* module flag
    tigramite,            \* what the library does when it is called
    pc,                   \* position inside analyze_causality
    var_data,             \* the local var_data
    result,               \* the returned dictionary
    called,               \* which sub-computations ran, in order
    \* ---- tasks persisting causal links (tasks_ml.py, tasks.py) ----------
    correlations,         \* committed rows of the correlations table
    next_id,              \* the table's autoincrement counter
    runs,                 \* per running task: its session and loop position
    \* ---- StumpyPatternDetector ------------------------------------------
    glucose_series,        \* the caller's series: sequence of [ts, value]
    reading_interval_minutes,
    top_k,
    window_size_hours,     \* self.window_size_hours
    detector_use_fallback, \* self.use_fallback of the detector
    STUMPY_AVAILABLE,      \* module flag
    stumpy,                \* what the library does when it is called
    method,                \* which public method is being called
    ppc,                   \* position inside that method
    window_size,           \* the local window_size
    presult,               \* the returned dictionary
    pcalled,               \* which sub-computations ran, in order
    \* ---- StumpyPatternDetector.find_similar_days ------------------------
    day_series,            \* the caller's series: sequence of [ts, value]
    target_date,           \* argument, a day number
    days_top_k,            \* argument top_k
    dpc,                   \* position inside find_similar_days
    dresult,               \* the returned dictionary
    \* ---- PCMCIAnalyzer.format_causal_graph / get_top_causes -------------
    causal_links,          \* the caller's link list
    links_given,           \* that list as it was when the first call was made
    target_variable,       \* argument of get_top_causes
    links_top_k,           \* argument top_k of get_top_causes
    gpc,                   \* which calls have been made
    graphs,                \* the graphs returned so far, in call order
    top_causes,            \* the list get_top_causes returned
    \* ---- invocations sharing one analyzer and one detector -------------
    parked,                \* the locals of the invocation that is not running
    \* ---- building the analysis table from the daily aggregates --------
    aggregates,            \* the user's daily_aggregates rows, by date
    table,                 \* df: the table the task hands to the engine
    tpc,                   \* position: "collect" or "built"
    \* ---- the correlations table over successive task runs -------------
    stored,                \* the user's rows of the correlations table
    task_runs              \* the task runs so far: task, result, status

causal_vars == <<data, variables, min_data_points, tau_max, alpha_level,
                 use_fallback, TIGRAMITE_AVAILABLE, tigramite, pc, var_data,
                 result, called>>

store_vars == <<correlations, next_id, runs>>

pattern_vars == <<glucose_series, reading_interval_minutes, top_k,
                  window_size_hours, detector_use_fallback, STUMPY_AVAILABLE,
                  stumpy, method, ppc, window_size, presult, pcalled>>

days_vars == <<day_series, target_date, days_top_k, dpc, dresult>>

graph_vars == <<causal_links, links_given, target_variable, links_top_k,
                gpc, graphs, top_causes>>

calls_vars == <<parked>>

table_vars == <<aggregates, table, tpc>>

runs_vars == <<stored, task_runs>>

not_causal == <<store_vars, pattern_vars, days_vars, graph_vars, calls_vars,
    table_vars, runs_vars>>

not_store == <<causal_vars, pattern_vars, days_vars, graph_vars, calls_vars,
    table_vars, runs_vars>>

not_pattern == <<causal_vars, store_vars, days_vars, graph_vars, calls_vars,
    table_vars, runs_vars>>

not_days == <<causal_vars, store_vars, pattern_vars, graph_vars, calls_vars,
    table_vars, runs_vars>>

not_graph == <<causal_vars, store_vars, pattern_vars, days_vars, calls_vars,
    table_vars, runs_vars>>

vars == <<causal_vars, store_vars, pattern_vars, days_vars, graph_vars, calls_vars,
         table_vars, runs_vars>>

----------------------------------------------------------------------------
(* Bounds of the model *)

MaxRows == 13          \* largest number of rows of the input table
MaxTau == 2            \* largest configured tau_max
NumSeeds == 3          \* number of distinct PCMCI result matrices tried
MaxSamples == 102      \* largest number of samples of the glucose series

(* Program constants *)

MinValidPairs == 10    \* valid_mask.sum() < 10
MinSamples == 100      \* len(glucose_series) < 100

NaN == -9999

IsNaN(v) == v = NaN

Abs(v) == IF v < 0 THEN -v ELSE v

Min2(a, b) == IF a < b THEN a ELSE b

Range(s) == {s[k] : k \in 1..Len(s)}

----------------------------------------------------------------------------
(* Input tables.  A table is a sequence of rows; a row has a date (the     *)
(* index) and one value per column; a missing value is NaN.                *)

Columns == {"sleep_hours", "avg_glucose", "carbs_grams"}

Shape(s, k) ==
    CASE s = 1 -> k % 3
      [] s = 2 -> (k - 1) % 3
      [] s = 3 -> 1
      [] s = 4 -> (k * k) % 3
      [] s = 5 -> ((k * k) \div 4) % 3
      [] s = 6 -> (k % 5) \div 2
      [] s = 7 -> (k \div 4) % 3
      [] OTHER -> IF k <= 6 THEN 0 ELSE 2

\* (sleep_hours, avg_glucose, carbs_grams) shapes of the tables tried
ShapeTriples ==
    { <<1, 2, 4>>, <<1, 4, 2>>, <<5, 6, 1>>, <<7, 8, 3>>, <<6, 5, 4>> }

\* Layout of a table: which cells are missing, where the date index has a
\* gap, and whether the caller handed the rows over unsorted.
Layouts ==
    { [nulls |-> {}, gapAt |-> 0, swapped |-> FALSE],
      [nulls |-> {<<2, "sleep_hours">>}, gapAt |-> 0, swapped |-> FALSE],
      [nulls |-> {<<3, "carbs_grams">>}, gapAt |-> 0, swapped |-> FALSE],
      [nulls |-> {<<2, "sleep_hours">>, <<5, "avg_glucose">>}, gapAt |-> 0,
       swapped |-> FALSE],
      [nulls |-> {}, gapAt |-> 4, swapped |-> FALSE],
      [nulls |-> {}, gapAt |-> 0, swapped |-> TRUE] }

MakeRow(k, shapes, layout) ==
    [date |-> IF layout.gapAt > 0 /\ k > layout.gapAt THEN k + 1 ELSE k,
     vals |-> [c \in Columns |->
                 IF <<k, c>> \in layout.nulls THEN NaN
                 ELSE Shape(shapes[CASE c = "sleep_hours" -> 1
                                     [] c = "avg_glucose" -> 2
                                     [] OTHER -> 3], k)]]

MakeTable(n, shapes, layout) ==
    [k \in 1..n |->
        LET src == IF layout.swapped /\ k <= 2 THEN 3 - k ELSE k
        IN  MakeRow(src, shapes, layout)]

----------------------------------------------------------------------------
(* pandas operations used by analyze_causality *)

RECURSIVE InsertByDate(_, _)
InsertByDate(row, sorted) ==
    IF sorted = <<>> THEN <<row>>
    ELSE IF row.date < Head(sorted).date THEN <<row>> \o sorted
    ELSE <<Head(sorted)>> \o InsertByDate(row, Tail(sorted))

RECURSIVE sort_index(_)
sort_index(rows) ==
    IF rows = <<>> THEN <<>>
    ELSE InsertByDate(rows[Len(rows)], sort_index(SubSeq(rows, 1, Len(rows) - 1)))

\* data[variables]: raises KeyError when a name is not a column
HasColumns(names) == \A k \in 1..Len(names) : names[k] \in Columns

SelectColumns_all(rows, names) == rows

SelectColumns(rows, names) ==
    [k \in 1..Len(rows) |->
        [date |-> rows[k].date,
         vals |-> [c \in Range(names) |-> rows[k].vals[c]]]]

RowIsComplete(row) == \A c \in DOMAIN row.vals : ~IsNaN(row.vals[c])

dropna(rows) == SelectSeq(rows, RowIsComplete)

Column(rows, name) == [k \in 1..Len(rows) |-> rows[k].vals[name]]

\* Series.shift(lag): moves the values lag ROWS down; the index is untouched
shift(col, lag) ==
    [k \in 1..Len(col) |-> IF k > lag THEN col[k - lag] ELSE NaN]

valid_mask(xs, ys) == {k \in 1..Len(xs) : ~(IsNaN(xs[k]) \/ IsNaN(ys[k]))}

RECURSIVE SumOver(_, _, _)
SumOver(f, g, S) ==
    IF S = {} THEN 0
    ELSE LET k == CHOOSE m \in S : TRUE
         IN  f[k] * g[k] + SumOver(f, g, S \ {k})

\* Pearson correlation of the pairs selected by mask, in hundredths
corr(xs, ys, mask) ==
    LET n == Cardinality(mask)
        ones == [k \in 1..Len(xs) |-> 1]
        sx == SumOver(xs, ones, mask)
        sy == SumOver(ys, ones, mask)
        cov == n * SumOver(xs, ys, mask) - sx * sy
        vx == n * SumOver(xs, xs, mask) - sx * sx
        vy == n * SumOver(ys, ys, mask) - sy * sy
        C == cov * cov
        D == vx * vy
        mag == IF C = D THEN 100
               ELSE Min2(99, Cardinality({m \in 0..99 : m * m * D < 10000 * C}))
    IN  IF n < 2 \/ D = 0 THEN NaN
        ELSE IF cov < 0 THEN -mag ELSE mag

----------------------------------------------------------------------------
(* scipy.stats.t: squared two-tailed critical values of Student's t,       *)
(* times 1000, for p = 0.10, 0.05, 0.01 and 7 .. 16 degrees of freedom.    *)

TCritSq ==
    [df \in 7..16 |->
        CASE df = 7 -> <<3589, 5591, 12246>>
          [] df = 8 -> <<3458, 5318, 11259>>
          [] df = 9 -> <<3360, 5117, 10561>>
          [] df = 10 -> <<3285, 4965, 10044>>
          [] df = 11 -> <<3225, 4844, 9646>>
          [] df = 12 -> <<3177, 4747, 9330>>
          [] df = 13 -> <<3136, 4667, 9074>>
          [] df = 14 -> <<3102, 4600, 8862>>
          [] df = 15 -> <<3073, 4543, 8683>>
          [] OTHER -> <<3048, 4494, 8529>>]

\* t_stat = corr * sqrt(n - 2) / sqrt(1 - corr**2);
\* p_value = 2 * (1 - stats.t.cdf(abs(t_stat), n - 2)), in thousandths.
\* corr = +-1 divides by 0.0: numpy yields inf, and the p-value is 0.
p_value_of(r, n) ==
    IF IsNaN(r) THEN NaN
    ELSE IF r * r = 10000 THEN 0
    ELSE LET t2 == r * r * (n - 2) * 1000
             den == 10000 - r * r
             crit == TCritSq[n - 2]
         IN  IF t2 > crit[3] * den THEN 0
             ELSE IF t2 > crit[2] * den THEN 10
             ELSE IF t2 > crit[1] * den THEN 50
             ELSE 100

\* "high" if p_value < 0.01 else "medium"
confidence_of(p) == IF ~IsNaN(p) /\ p < 10 THEN "high" ELSE "medium"

----------------------------------------------------------------------------
(* PCMCIAnalyzer._fallback_correlation_analysis: the lag scanner *)

\* abs(corr) > 0.3 and n > 10
EffectGate(r, n) == ~IsNaN(r) /\ Abs(r) > 30 /\ n > 10

\* p_value < self.alpha_level
Significant(p, alpha) == ~IsNaN(p) /\ p < alpha

\* the iteration without the lag-0 skip of line 147
fallback_candidate_both_orders(self, rows, names, i, j, lag) ==
    LET var_x == names[i]
        var_y == names[j]
        x_shifted == IF lag > 0 THEN shift(Column(rows, var_x), lag)
                     ELSE Column(rows, var_x)
        ys == Column(rows, var_y)
        mask == valid_mask(x_shifted, ys)
        n == Cardinality(mask)
        r == corr(x_shifted, ys, mask)
        p == p_value_of(r, n)
    IN  IF i = j THEN <<>>
        ELSE IF n < MinValidPairs THEN <<>>
        ELSE IF ~EffectGate(r, n) THEN <<>>
        ELSE IF ~Significant(p, self.alpha_level) THEN <<>>
        ELSE << [from |-> var_x, to |-> var_y, lag |-> lag, strength |-> r,
                 p_value |-> p, confidence |-> confidence_of(p),
                 sample_size |-> n] >>

\* one iteration of the innermost loop: the links it appends (none or one)
fallback_candidate(self, rows, names, i, j, lag) ==
    LET var_x == names[i]
        var_y == names[j]
        x_shifted == IF lag > 0 THEN shift(Column(rows, var_x), lag)
                     ELSE Column(rows, var_x)
        ys == Column(rows, var_y)
        mask == valid_mask(x_shifted, ys)
        n == Cardinality(mask)
        r == corr(x_shifted, ys, mask)
        p == p_value_of(r, n)
    IN  IF i = j THEN <<>>
        ELSE IF lag = 0 /\ i >= j THEN <<>>
        ELSE IF n < MinValidPairs THEN <<>>
        ELSE IF ~EffectGate(r, n) THEN <<>>
        ELSE IF ~Significant(p, self.alpha_level) THEN <<>>
        ELSE << [from |-> var_x, to |-> var_y, lag |-> lag, strength |-> r,
                 p_value |-> p, confidence |-> confidence_of(p),
                 sample_size |-> n] >>

\* the three nested loops, in the order the code runs them: i, then j, then lag
RECURSIVE fallback_scan(_, _, _, _)
fallback_scan(self, rows, names, t) ==
    LET N == Len(names)
        T == self.tau_max + 1
    IN  IF t >= N * N * T THEN <<>>
        ELSE fallback_candidate(self, rows, names,
                                (t \div (N * T)) + 1, ((t \div T) % N) + 1, t % T)
             \o fallback_scan(self, rows, names, t + 1)

fallback_correlation_analysis(self, rows, names) ==
    [method |-> "Fallback Correlation",
     causal_links |-> fallback_scan(self, rows, names, 0),
     variables |-> names,
     tau_max |-> self.tau_max,
     alpha_level |-> self.alpha_level,
     sample_size |-> Len(rows)]

----------------------------------------------------------------------------
(* tigramite: what PCMCI.run_pcmci returns.  The library is outside the    *)
(* repository; its matrices are drawn from a family indexed by a seed.     *)

ValGrid == <<-80, -10, 5, 10, 11, 30, 60, NaN>>
PGrid == <<0, 10, 50, 100, 0, NaN, 10>>

run_pcmci(lib, N, T) ==
    LET lags == IF lib.outcome = "short_matrix" THEN 0..(T - 1) ELSE 0..T
    IN  [val_matrix |-> [c \in (1..N) \X (1..N) \X lags |->
                           ValGrid[((3 * c[1] + 5 * c[2] + 7 * c[3] + lib.seed)
                                    % Len(ValGrid)) + 1]],
         p_matrix |-> [c \in (1..N) \X (1..N) \X lags |->
                           PGrid[((c[1] + 2 * c[2] + 3 * c[3] + 2 * lib.seed)
                                  % Len(PGrid)) + 1]]]

(* PCMCIAnalyzer._extract_causal_links *)

ExtractGate_inclusive(val, p_val, alpha) ==
    /\ ~IsNaN(p_val) /\ p_val < alpha
    /\ ~IsNaN(val) /\ Abs(val) >= 10

\* p_val < self.alpha_level and abs(val) > 0.1
ExtractGate(val, p_val, alpha) ==
    /\ ~IsNaN(p_val) /\ p_val < alpha
    /\ ~IsNaN(val) /\ Abs(val) > 10

extract_candidate(self, results, names, i, j, tau) ==
    LET val == results.val_matrix[<<i, j, tau>>]
        p_val == results.p_matrix[<<i, j, tau>>]
    IN  IF ExtractGate(val, p_val, self.alpha_level)
        THEN << [from |-> names[i], to |-> names[j], lag |-> tau,
                 strength |-> val, p_value |-> p_val,
                 confidence |-> confidence_of(p_val)] >>
        ELSE <<>>

\* loops: j (target), then i (source), then tau
RECURSIVE extract_scan(_, _, _, _)
extract_scan(self, results, names, t) ==
    LET N == Len(names)
        T == self.tau_max + 1
    IN  IF t >= N * N * T THEN <<>>
        ELSE extract_candidate(self, results, names,
                               ((t \div T) % N) + 1, (t \div (N * T)) + 1, t % T)
             \o extract_scan(self, results, names, t + 1)

\* list.sort(key=abs(strength), reverse=True): stable, descending
RECURSIVE InsertByStrength(_, _)
InsertByStrength(link, sorted) ==
    IF sorted = <<>> THEN <<link>>
    ELSE IF Abs(link.strength) > Abs(Head(sorted).strength)
         THEN <<link>> \o sorted
    ELSE <<Head(sorted)>> \o InsertByStrength(link, Tail(sorted))

RECURSIVE sort_by_abs_strength(_)
sort_by_abs_strength(links) ==
    IF links = <<>> THEN <<>>
    ELSE InsertByStrength(links[Len(links)],
                          sort_by_abs_strength(SubSeq(links, 1, Len(links) - 1)))

\* val_matrix[i, j, tau] raises IndexError when the matrix is too small
ExtractRaises(self, results, names) ==
    \E i \in 1..Len(names), tau \in 0..self.tau_max :
        <<i, i, tau>> \notin DOMAIN results.val_matrix

extract_causal_links(self, results, names) ==
    sort_by_abs_strength(extract_scan(self, results, names, 0))

----------------------------------------------------------------------------
(* PCMCIAnalyzer.analyze_causality, one action per stretch of the method *)

NoResult == [none |-> TRUE]

Self == [tau_max |-> tau_max, alpha_level |-> alpha_level]

VariableLists ==
    { <<"sleep_hours", "avg_glucose">>,
      <<"sleep_hours", "avg_glucose", "carbs_grams">>,
      <<"sleep_hours", "heart_rate">> }

Libraries ==
    [outcome : {"ok"}, seed : 1..NumSeeds]
    \cup [outcome : {"raise_dataframe", "raise_run_pcmci", "short_matrix"},
          seed : {1}]

NotCalled == [outcome |-> "not_called", seed |-> 0]

InitCausal ==
    /\ \E n \in (MaxRows - 2)..MaxRows, shapes \in ShapeTriples, layout \in Layouts :
          data = MakeTable(n, shapes, layout)
    /\ variables \in VariableLists
    /\ min_data_points \in {MaxRows - 2, MaxRows - 1}
    /\ tau_max \in 0..MaxTau
    /\ alpha_level \in {50, 100}
    /\ TIGRAMITE_AVAILABLE \in BOOLEAN
    \* __init__: use_fallback = not TIGRAMITE_AVAILABLE; a caller may force it on
    /\ use_fallback \in {~TIGRAMITE_AVAILABLE, TRUE}
    /\ tigramite = NotCalled
    /\ pc = "start"
    /\ var_data = <<>>
    /\ result = NoResult
    /\ called = <<>>

\* len(...) < min_data_points (lines 58 and 74)
TooFew_strict(n, required) == n <= required

TooFew(n, required) == n < required

\* self.use_fallback or not TIGRAMITE_AVAILABLE (line 81)
TakesFallback_flagonly(forced, available) == ~available

TakesFallback(forced, available) == forced \/ ~available

\* lines 58-63
CheckDataPoints ==
    /\ pc = "start"
    /\ IF TooFew(Len(data), min_data_points)
       THEN /\ result' = [error |-> "Insufficient data points",
                          data_points |-> Len(data),
                          required |-> min_data_points]
            /\ pc' = "done"
       ELSE /\ pc' = "prepare"
            /\ UNCHANGED result
    /\ UNCHANGED <<data, variables, min_data_points, tau_max, alpha_level,
                   use_fallback, TIGRAMITE_AVAILABLE, tigramite, var_data, called>>
    /\ UNCHANGED not_causal

\* data.sort_index(inplace=True): the caller's frame is reordered
sort_index_receiver_inplace(rows) == sort_index(rows)

\* data.sort_index() (line 66) returns a new frame and the name data is
\* rebound to it: the frame the caller passed keeps its rows and their order
sort_index_receiver(rows) == rows

\* lines 66-72: sort_index, data[variables] (KeyError escapes), dropna
PrepareData ==
    /\ pc = "prepare"
    /\ data' = sort_index_receiver(data)
    /\ IF HasColumns(variables)
       THEN /\ var_data' = dropna(SelectColumns(sort_index(data), variables))
            /\ called' = called \o <<"sort_index", "select", "dropna">>
            /\ pc' = "check_clean"
       ELSE /\ called' = called \o <<"sort_index", "KeyError">>
            /\ pc' = "raised"
            /\ UNCHANGED var_data
    /\ UNCHANGED <<variables, min_data_points, tau_max, alpha_level,
                   use_fallback, TIGRAMITE_AVAILABLE, tigramite, result>>
    /\ UNCHANGED not_causal

\* lines 74-79
CheckCleanPoints ==
    /\ pc = "check_clean"
    /\ IF TooFew(Len(var_data), min_data_points)
       THEN /\ result' = [error |-> "Insufficient clean data points after removing NaN",
                          data_points |-> Len(var_data),
                          required |-> min_data_points]
            /\ pc' = "done"
       ELSE /\ pc' = "dispatch"
            /\ UNCHANGED result
    /\ UNCHANGED <<data, variables, min_data_points, tau_max, alpha_level,
                   use_fallback, TIGRAMITE_AVAILABLE, tigramite, var_data, called>>
    /\ UNCHANGED not_causal

\* lines 81-82
DispatchFallback ==
    /\ pc = "dispatch"
    /\ TakesFallback(use_fallback, TIGRAMITE_AVAILABLE)
    /\ result' = fallback_correlation_analysis(Self, var_data, variables)
    /\ called' = called \o <<"fallback">>
    /\ pc' = "done"
    /\ UNCHANGED <<data, variables, min_data_points, tau_max, alpha_level,
                   use_fallback, TIGRAMITE_AVAILABLE, tigramite, var_data>>
    /\ UNCHANGED not_causal

\* What the try block (lines 84-119) does before it returns or raises
PrimarySteps(lib) ==
    CASE lib.outcome = "raise_dataframe" -> <<"pp.DataFrame", "except">>
      [] lib.outcome = "raise_run_pcmci" ->
            <<"pp.DataFrame", "run_pcmci", "except">>
      [] ExtractRaises(Self, run_pcmci(lib, Len(variables), tau_max), variables) ->
            <<"pp.DataFrame", "run_pcmci", "extract", "except">>
      [] OTHER -> <<"pp.DataFrame", "run_pcmci", "extract">>

PrimaryResult(self, rows, names, results) ==
    [method |-> "PCMCI",
     causal_links |-> extract_causal_links(self, results, names),
     value_matrix |-> results.val_matrix,
     p_matrix |-> results.p_matrix,
     variables |-> names,
     tau_max |-> self.tau_max,
     alpha_level |-> self.alpha_level,
     sample_size |-> Len(rows)]

\* lines 84-123: the try block and its except clause
RunPrimary ==
    /\ pc = "dispatch"
    /\ ~TakesFallback(use_fallback, TIGRAMITE_AVAILABLE)
    /\ \E lib \in Libraries :
          LET steps == PrimarySteps(lib)
          IN  /\ tigramite' = lib
              /\ IF steps[Len(steps)] = "except"
                 THEN /\ result' = fallback_correlation_analysis(Self, var_data, variables)
                      /\ called' = called \o steps \o <<"fallback">>
                 ELSE /\ result' = PrimaryResult(Self, var_data, variables,
                                       run_pcmci(lib, Len(variables), tau_max))
                      /\ called' = called \o steps
    /\ pc' = "done"
    /\ UNCHANGED <<data, variables, min_data_points, tau_max, alpha_level,
                   use_fallback, TIGRAMITE_AVAILABLE, var_data>>
    /\ UNCHANGED not_causal

NextCausal ==
    \/ CheckDataPoints
    \/ PrepareData
    \/ CheckCleanPoints
    \/ DispatchFallback
    \/ RunPrimary

----------------------------------------------------------------------------
(* Tasks that persist links: run_pcmci_analysis (tasks_ml.py 101-131) and  *)
(* compute_correlations (tasks.py 291-320).  Each task works in its own    *)
(* SQLAlchemy session, i.e. its own PostgreSQL transaction (READ           *)
(* COMMITTED): a SELECT sees the committed rows and the transaction's own  *)
(* writes; session.query autoflushes the pending INSERT / UPDATE; a write  *)
(* to a key another open transaction has written waits for it to end.      *)

Tasks == {"pcmci_a", "pcmci_b", "corr"}

K_quality == [factor_x |-> "sleep_quality", factor_y |-> "avg_glucose", lag_days |-> 0]
K_hours == [factor_x |-> "sleep_hours", factor_y |-> "avg_glucose", lag_days |-> 1]
K_duration == [factor_x |-> "sleep_duration", factor_y |-> "avg_glucose", lag_days |-> 0]

\* link lists a run_pcmci_analysis result can hold over the keys above
PcmciLinkLists ==
    { <<K_quality>>, <<K_hours>>, <<K_quality, K_hours>>, <<K_hours, K_quality>> }

\* compute_correlations: for feature in features: for target in targets
CorrLinkList == <<K_duration, K_quality>>

NoOp == [op |-> "none"]

KeyOf(row) ==
    [factor_x |-> row.factor_x, factor_y |-> row.factor_y, lag_days |-> row.lag_days]

IdleStore ==
    /\ correlations = {}
    /\ next_id = 0
    /\ runs = <<>>

InitStore ==
    /\ \/ correlations = {} /\ next_id = 1
       \/ /\ correlations = {[id |-> 1, factor_x |-> "sleep_quality",
                              factor_y |-> "avg_glucose", lag_days |-> 0,
                              computed_by |-> "earlier"]}
          /\ next_id = 2
    /\ \E la \in PcmciLinkLists, lb \in PcmciLinkLists :
          runs = [t \in Tasks |->
                    [links |-> CASE t = "pcmci_a" -> la
                                 [] t = "pcmci_b" -> lb
                                 [] OTHER -> CorrLinkList,
                     i |-> 1, pending |-> NoOp, flushed |-> <<>>, pc |-> "loop"]]

\* keys this transaction has written (flushed) and not yet committed
FlushedKeys(t) == {runs[t].flushed[k].key : k \in 1..Len(runs[t].flushed)}

\* the flush of t's pending write waits for another open transaction
Blocked(t) ==
    /\ runs[t].pending.op # "none"
    /\ \E u \in Tasks \ {t} : runs[u].pc = "loop" /\ runs[t].pending.key \in FlushedKeys(u)

UniqueConstraint_absent(rows, key) == FALSE

\* models/correlation.py: UniqueConstraint(user_id, factor_x, factor_y, lag_days)
UniqueConstraint(rows, key) == \E row \in rows : KeyOf(row) = key

\* the flush of t's pending INSERT violates uq_correlation
Conflict(t) ==
    /\ runs[t].pending.op = "insert"
    /\ UniqueConstraint(correlations, runs[t].pending.key)

AfterFlush(t) ==
    IF runs[t].pending.op = "none" THEN runs[t].flushed
    ELSE Append(runs[t].flushed, runs[t].pending)

\* session.query(Correlation).filter(...).first() is not None
Existing(t, key) ==
    \/ \E row \in correlations : KeyOf(row) = key
    \/ \E k \in 1..Len(AfterFlush(t)) : AfterFlush(t)[k].key = key

Rollback(t, error) ==
    [runs EXCEPT ![t] = [@ EXCEPT !.pending = NoOp, !.flushed = <<>>, !.pc = error]]

\* one iteration of "for link in causal_links": query (103-108), then
\* update the row found (110-115) or session.add a new one (116-127)
StoreLink(t) ==
    /\ runs[t].pc = "loop"
    /\ runs[t].i <= Len(runs[t].links)
    /\ ~Blocked(t)
    /\ IF Conflict(t)
       THEN runs' = Rollback(t, "IntegrityError")
       ELSE LET key == runs[t].links[runs[t].i]
            IN  runs' = [runs EXCEPT ![t] =
                    [@ EXCEPT !.flushed = AfterFlush(t),
                              !.pending = [op |-> IF Existing(t, key) THEN "update"
                                                  ELSE "insert",
                                           key |-> key],
                              !.i = @ + 1]]
    /\ UNCHANGED <<correlations, next_id>>
    /\ UNCHANGED not_store

RECURSIVE ApplyWrites(_, _, _, _)
ApplyWrites(rows, ops, id, t) ==
    IF ops = <<>> THEN rows
    ELSE LET o == Head(ops)
             next == IF o.op = "insert"
                     THEN rows \cup {[id |-> id, factor_x |-> o.key.factor_x,
                                      factor_y |-> o.key.factor_y,
                                      lag_days |-> o.key.lag_days,
                                      computed_by |-> t]}
                     ELSE {IF KeyOf(row) = o.key
                           THEN [row EXCEPT !.computed_by = t] ELSE row : row \in rows}
         IN  ApplyWrites(next, Tail(ops), id + 1, t)

\* session.commit() (line 131 / line 320): flush, then commit
Commit(t) ==
    /\ runs[t].pc = "loop"
    /\ runs[t].i > Len(runs[t].links)
    /\ ~Blocked(t)
    /\ IF Conflict(t)
       THEN /\ runs' = Rollback(t, "IntegrityError")
            /\ UNCHANGED <<correlations, next_id>>
       ELSE /\ correlations' = ApplyWrites(correlations, AfterFlush(t), next_id, t)
            /\ next_id' = next_id + Len(AfterFlush(t))
            /\ runs' = [runs EXCEPT ![t] =
                          [@ EXCEPT !.pending = NoOp, !.flushed = <<>>, !.pc = "done"]]
    /\ UNCHANGED not_store

\* PostgreSQL aborts a transaction that waits for one that waits for it
DeadlockDetected(t) ==
    /\ runs[t].pc = "loop"
    /\ Blocked(t)
    /\ \E u \in Tasks \ {t} :
          /\ runs[u].pc = "loop"
          /\ runs[t].pending.key \in FlushedKeys(u)
          /\ runs[u].pending.op # "none"
          /\ runs[u].pending.key \in FlushedKeys(t)
    /\ runs' = Rollback(t, "DeadlockDetected")
    /\ UNCHANGED <<correlations, next_id>>
    /\ UNCHANGED not_store

(* Glucose series.  A series is a sequence of samples [ts, value]; ts is   *)
(* the timestamp in minutes, value a glucose value or NaN.  Values are     *)
(* even so that the linear interpolation of an isolated gap is exact.      *)

MinutesPerDay == 1440

GlucoseShape(s, k) ==
    CASE s = 1 -> 2 * (IF k % 4 = 3 THEN 1 ELSE k % 4)
      [] s = 2 -> 2
      [] s = 3 -> 2 * ((k * k) % 3)
      [] OTHER -> IF k = 60 THEN 4 ELSE 2 * (k % 2)

MakeSeries(n, s, nans) ==
    [k \in 1..n |-> [ts |-> 5 * (k - 1),
                     value |-> IF k \in nans THEN NaN ELSE GlucoseShape(s, k)]]

\* glucose_series.values
Values(series) == [k \in 1..Len(series) |-> series[k].value]

\* t.date()
DateOf(ts) == ts \div MinutesPerDay

\* pd.Series(values).interpolate(method='linear'): gaps are filled linearly,
\* a trailing gap repeats the last value, a leading gap stays NaN
interpolate(vals) ==
    [k \in 1..Len(vals) |->
        IF ~IsNaN(vals[k]) THEN vals[k]
        ELSE LET before == {a \in 1..(k - 1) : ~IsNaN(vals[a])}
                 after == {b \in (k + 1)..Len(vals) : ~IsNaN(vals[b])}
             IN  IF before = {} THEN NaN
                 ELSE LET a == CHOOSE x \in before : \A y \in before : y <= x
                      IN  IF after = {} THEN vals[a]
                          ELSE LET b == CHOOSE x \in after : \A y \in after : x <= y
                               IN  vals[a] + ((vals[b] - vals[a]) * (k - a)) \div (b - a)]

HasNaN(vals, lo, hi) == \E k \in lo..hi : IsNaN(vals[k])

RECURSIVE SumProd(_, _, _, _, _)
\* sum of f[i + d] * g[j + d] for d in 0 .. w - 1
SumProd(f, g, i, j, w) ==
    IF w <= 0 THEN 0
    ELSE f[i + w - 1] * g[j + w - 1] + SumProd(f, g, i, j, w - 1)

RECURSIVE SumSeq(_, _, _)
\* sum of f[i + d] for d in 0 .. w - 1
SumSeq(f, i, w) ==
    IF w <= 0 THEN 0 ELSE f[i + w - 1] + SumSeq(f, i, w - 1)

\* floor(sqrt(q)) for 0 <= q, searched up to limit
ISqrt(q, limit) == Cardinality({m \in 1..limit : m * m <= q})

\* np.mean / np.std / np.min / np.max of the window vals[lo .. lo + w - 1],
\* mean and std in hundredths
Summary(vals, lo, w) ==
    IF w <= 0 \/ HasNaN(vals, lo, lo + w - 1)
    THEN [mean |-> NaN, std |-> NaN, min |-> NaN, max |-> NaN]
    ELSE LET S == SumSeq(vals, lo, w)
             Q == SumProd(vals, vals, lo, lo, w)
             win == {vals[k] : k \in lo..(lo + w - 1)}
         IN  [mean |-> (100 * S) \div w,
              std |-> ISqrt((10000 * (w * Q - S * S)) \div (w * w), 400),
              min |-> CHOOSE v \in win : \A u \in win : v <= u,
              max |-> CHOOSE v \in win : \A u \in win : u <= v]

----------------------------------------------------------------------------
(* StumpyPatternDetector._fallback_pattern_detection (lines 235-279).      *)
(* Window starts are 1-based here (the code's are 0-based).                *)

\* np.corrcoef(window_i, window_j)[0, 1] > 0.7
HighCorr(vals, i, j, w) ==
    IF w <= 0 \/ HasNaN(vals, i, i + w - 1) \/ HasNaN(vals, j, j + w - 1) THEN FALSE
    ELSE LET sx == SumSeq(vals, i, w)
             sy == SumSeq(vals, j, w)
             cov == w * SumProd(vals, vals, i, j, w) - sx * sy
             vx == w * SumProd(vals, vals, i, i, w) - sx * sx
             vy == w * SumProd(vals, vals, j, j, w) - sy * sy
             D == vx * vy
         IN  /\ D > 0
             /\ cov > 0
             /\ cov * cov > 49 * (D \div 100) + (49 * (D % 100)) \div 100

\* w * w * variance of the window vals[i .. i + w - 1]
WindowSpread(vals, i, w) ==
    w * SumProd(vals, vals, i, i, w) - SumSeq(vals, i, w) * SumSeq(vals, i, w)

\* np.where(correlations[i] > threshold)[0]; the row of a window that holds a
\* NaN or is constant is all NaN, and NaN > threshold is False
similar_indices(vals, i, w, num_windows) ==
    IF w <= 0 \/ HasNaN(vals, i, i + w - 1) THEN {}
    ELSE IF WindowSpread(vals, i, w) = 0 THEN {}
    ELSE {j \in 1..num_windows : j # i /\ HighCorr(vals, i, j, w)}

RECURSIVE FirstOf(_, _)
\* the first count elements of a set of indices, ascending
FirstOf(S, count) ==
    IF S = {} \/ count <= 0 THEN <<>>
    ELSE LET m == CHOOSE x \in S : \A y \in S : x <= y
         IN  <<m>> \o FirstOf(S \ {m}, count - 1)

fallback_pattern(series, vals, i, w, sim, id) ==
    LET pattern_times == <<i>> \o FirstOf(sim, 4)
    IN  [pattern_id |-> id,
         occurrences |-> Cardinality(sim) + 1,
         example_dates |-> [k \in 1..Len(pattern_times) |->
                               DateOf(series[pattern_times[k]].ts)],
         pattern_summary |-> Summary(vals, i, w)]

\* len(similar_indices) >= 2
Recurs(vals, i, w, num_windows) ==
    Cardinality(similar_indices(vals, i, w, num_windows)) >= 2

\* the first window start at or after from that recurs, 0 when there is none
next_recurring(vals, w, from, num_windows) ==
    IF \E i \in from..num_windows : Recurs(vals, i, w, num_windows)
    THEN CHOOSE i \in from..num_windows :
            /\ Recurs(vals, i, w, num_windows)
            /\ \A h \in from..(i - 1) : ~Recurs(vals, h, w, num_windows)
    ELSE 0

RECURSIVE fallback_pattern_loop(_, _, _, _, _, _)
\* for i in range(num_windows): ... if len(patterns) >= top_k: break
fallback_pattern_loop(series, vals, w, k, from, patterns) ==
    LET num_windows == Len(vals) - w + 1
        i == next_recurring(vals, w, from, num_windows)
    IN  IF i = 0 THEN patterns
        ELSE LET sim == similar_indices(vals, i, w, num_windows)
                 found == Append(patterns,
                                 fallback_pattern(series, vals, i, w, sim,
                                                  Len(patterns) + 1))
             IN  IF Len(found) >= k THEN found
                 ELSE fallback_pattern_loop(series, vals, w, k, i + 1, found)

fallback_pattern_detection(series, w, k) ==
    LET patterns == fallback_pattern_loop(series, Values(series), w, k, 1, <<>>)
    IN  [method |-> "Fallback Correlation",
         patterns_found |-> Len(patterns),
         patterns |-> patterns]

----------------------------------------------------------------------------
(* StumpyPatternDetector._fallback_anomaly_detection (lines 298-328) *)

\* the rolling window ending at k is full and free of NaN
RollingDefined(vals, k, w) ==
    w >= 1 /\ k >= w /\ ~HasNaN(vals, k - w + 1, k)

\* numerator and denominator of z**2, where
\* z = abs((value - moving_mean) / (moving_std + 1e-6)), moving_std with ddof=1
ZSquared(vals, k, w) ==
    LET lo == k - w + 1
        S == SumSeq(vals, lo, w)
        Q == SumProd(vals, vals, lo, lo, w)
    IN  [num |-> (w * vals[k] - S) * (w * vals[k] - S) * (w - 1),
         den |-> w * (w * Q - S * S)]

\* z_scores[k], in tenths; NaN while the window is not full, holds a NaN,
\* or has a single sample (the sample std of one value is NaN)
z_score(vals, k, w) ==
    IF ~RollingDefined(vals, k, w) \/ w < 2 THEN NaN
    ELSE LET z2 == ZSquared(vals, k, w)
         IN  IF z2.den = 0 THEN 0
             ELSE ISqrt((100 * z2.num) \div z2.den, 1000)

\* z_scores[idx] > 3
ZAboveThree(vals, k, w) ==
    LET z2 == ZSquared(vals, k, w)
    IN  z2.den > 0 /\ z2.num > 9 * z2.den

\* np.argsort: ascending, NaN last; equal keys keep their index order

\* the indices that carry key v, ascending
IndicesWith(keys, v) ==
    SelectSeq([a \in 1..Len(keys) |-> a], LAMBDA a : keys[a] = v)

RECURSIVE argsort_from(_, _)
\* the indices whose key is in rest, smallest key first, NaN last
argsort_from(keys, rest) ==
    IF rest = {} THEN <<>>
    ELSE LET numbers == {v \in rest : ~IsNaN(v)}
             v == IF numbers = {} THEN NaN
                  ELSE CHOOSE x \in numbers : \A y \in numbers : x <= y
         IN  IndicesWith(keys, v) \o argsort_from(keys, rest \ {v})

argsort(keys) == argsort_from(keys, {keys[a] : a \in DOMAIN keys})

Reverse(s) == [k \in 1..Len(s) |-> s[Len(s) + 1 - k]]

\* order[-k:][::-1]; in Python order[-0:] is the whole array
LastReversed(order, k) ==
    IF k = 0 \/ k >= Len(order) THEN Reverse(order)
    ELSE Reverse(SubSeq(order, Len(order) - k + 1, Len(order)))

\* for rank, idx in enumerate(anomaly_indices): a NaN z-score is skipped,
\* the others are appended with anomaly_id = rank + 1 (rank is 1-based here)
fallback_anomaly_loop(series, vals, w, picks) ==
    LET ranks == SelectSeq([r \in 1..Len(picks) |-> r],
                           LAMBDA r : ~IsNaN(z_score(vals, picks[r], w)))
    IN  [a \in 1..Len(ranks) |->
            LET idx == picks[ranks[a]]
            IN  [anomaly_id |-> ranks[a],
                 timestamp |-> series[idx].ts,
                 value |-> vals[idx],
                 z_score |-> z_score(vals, idx, w),
                 severity |-> IF ZAboveThree(vals, idx, w)
                              THEN "high" ELSE "medium"]]

fallback_anomaly_detection(series, w, k) ==
    LET vals == Values(series)
        z_scores == [i \in 1..Len(vals) |-> z_score(vals, i, w)]
        anomaly_indices == LastReversed(argsort(z_scores), k)
        anomalies == fallback_anomaly_loop(series, vals, w, anomaly_indices)
    IN  [method |-> "Fallback Z-Score",
         anomalies_found |-> Len(anomalies),
         anomalies |-> anomalies]

----------------------------------------------------------------------------
(* stumpy: the library is outside the repository.  stump raises when the   *)
(* window is shorter than 3 or longer than the series; otherwise its       *)
(* matrix profile is drawn from a family indexed by a seed.  motifs        *)
(* returns (motif_distances, motif_indices), one row per motif found.      *)

MPGrid == <<10, 20, 15, 90, 30, 20>>

StumpRaises(lib, n, w) == lib.outcome = "raise" \/ w < 3 \/ w > n

\* mp[:, 0]
stump(lib, n, w) ==
    [k \in 1..(n - w + 1) |-> MPGrid[((k * lib.seed) % Len(MPGrid)) + 1]]

\* len(motifs[0])
MotifRows(lib) == lib.motif_rows

(* The primary paths *)

\* lines 98-126: motif_idx = motifs[0][k] is a row of motif_distances, and
\* glucose_series.index[motif_idx] raises IndexError (an array of floats is
\* no index), so the loop body raises as soon as it runs
PatternLoopRaises(lib, k) == Min2(k, MotifRows(lib)) >= 1

PatternPrimaryResult(self, series) ==
    [method |-> "STUMPY Matrix Profile",
     window_size_hours |-> self.window_size_hours,
     patterns_found |-> 0,
     patterns |-> <<>>,
     total_data_points |-> Len(series)]

\* np.percentile(mp[:, 0], 95), linear interpolation: distance > percentile
AbovePercentile95(distance, mp, order) ==
    LET n == Len(mp)
        pos == 95 * (n - 1)
        lo == (pos \div 100) + 1
        hi == Min2(lo + 1, n)
    IN  100 * distance >
            100 * mp[order[lo]] + (pos % 100) * (mp[order[hi]] - mp[order[lo]])

anomaly_record(self, series, values, mp, order, w, idx, rank) ==
    [anomaly_id |-> rank,
     timestamp |-> series[idx].ts,
     date |-> DateOf(series[idx].ts),
     time |-> series[idx].ts % MinutesPerDay,
     distance |-> mp[idx],
     severity |-> IF AbovePercentile95(mp[idx], mp, order) THEN "high" ELSE "medium",
     pattern_summary |-> [s \in {"mean", "std", "min", "max", "duration_hours"} |->
                            IF s = "duration_hours" THEN self.window_size_hours
                            ELSE Summary(values, idx, w)[s]],
     values |-> SubSeq(values, idx, idx + w - 1)]

AnomalyPrimaryResult(self, series, lib, w, k) ==
    LET values == interpolate(Values(series))
        mp == stump(lib, Len(series), w)
        order == argsort(mp)
        discord_indices == LastReversed(order, k)
        anomalies == [r \in 1..Len(discord_indices) |->
                         anomaly_record(self, series, values, mp, order, w,
                                        discord_indices[r], r)]
    IN  [method |-> "STUMPY Discord Discovery",
         window_size_hours |-> self.window_size_hours,
         anomalies_found |-> Len(anomalies),
         anomalies |-> anomalies,
         total_data_points |-> Len(series)]

----------------------------------------------------------------------------
(* StumpyPatternDetector.detect_recurring_patterns and detect_anomalies,   *)
(* one action per stretch of each method                                   *)

Detector == [window_size_hours |-> window_size_hours]

StumpyLibraries ==
    { [outcome |-> "ok", seed |-> 1, motif_rows |-> 0],
      [outcome |-> "ok", seed |-> 1, motif_rows |-> 2],
      [outcome |-> "ok", seed |-> 2, motif_rows |-> 2],
      [outcome |-> "raise", seed |-> 1, motif_rows |-> 0] }

StumpyNotCalled == [outcome |-> "not_called", seed |-> 0, motif_rows |-> 0]

SeriesLengths == {MinSamples - 1, MinSamples, MinSamples + 1, MaxSamples}

\* (shape, positions of the missing readings) pairs tried
SeriesKinds == { <<1, {}>>, <<2, {}>>, <<3, {1, 40}>>, <<4, {}>>, <<1, {40}>> }

\* (window_size_hours, reading_interval_minutes) pairs tried
WindowSettings ==
    { <<1, 30>>, <<1, 20>>, <<17, 20>>, <<1, 0>>, <<1, 90>>, <<3, 45>>, <<2, 90>> }

InitPattern ==
    /\ \E n \in SeriesLengths, kind \in SeriesKinds :
          glucose_series = MakeSeries(n, kind[1], kind[2])
    /\ \E ws \in WindowSettings :
          /\ window_size_hours = ws[1]
          /\ reading_interval_minutes = ws[2]
    /\ top_k \in {0, 1, 3}
    /\ STUMPY_AVAILABLE \in BOOLEAN
    \* __init__: use_fallback = not STUMPY_AVAILABLE; a caller may force it on
    /\ detector_use_fallback \in {~STUMPY_AVAILABLE, TRUE}
    /\ stumpy = StumpyNotCalled
    /\ method \in {"detect_recurring_patterns", "detect_anomalies"}
    /\ ppc = "start"
    /\ window_size = 0
    /\ presult = NoResult
    /\ pcalled = <<>>

IdlePattern ==
    /\ glucose_series = <<>> /\ reading_interval_minutes = 0 /\ top_k = 0
    /\ window_size_hours = 0 /\ detector_use_fallback = FALSE
    /\ STUMPY_AVAILABLE = FALSE /\ stumpy = StumpyNotCalled
    /\ method = "none" /\ ppc = "idle" /\ window_size = 0
    /\ presult = NoResult /\ pcalled = <<>>

\* len(glucose_series) < 100 (lines 57 and 157)
TooShort_inclusive(n) == n <= MinSamples

TooShort(n) == n < MinSamples

\* len(glucose_series) < 2 * window_size (line 67)
BelowTwoWindows_single(n, w) == n < w

BelowTwoWindows(n, w) == n < 2 * w

\* lines 57-61
PatternCheckLength ==
    /\ method = "detect_recurring_patterns" /\ ppc = "start"
    /\ IF TooShort(Len(glucose_series))
       THEN /\ presult' = [error |-> "Insufficient data for pattern detection",
                           data_points |-> Len(glucose_series)]
            /\ ppc' = "done"
       ELSE /\ ppc' = "window"
            /\ UNCHANGED presult
    /\ UNCHANGED <<glucose_series, reading_interval_minutes, top_k,
                   window_size_hours, detector_use_fallback, STUMPY_AVAILABLE,
                   stumpy, method, window_size, pcalled>>
    /\ UNCHANGED not_pattern

\* lines 64-72: 60 // reading_interval_minutes raises ZeroDivisionError on 0
PatternWindow ==
    /\ method = "detect_recurring_patterns" /\ ppc = "window"
    /\ IF reading_interval_minutes = 0
       THEN /\ ppc' = "raised"
            /\ pcalled' = pcalled \o <<"ZeroDivisionError">>
            /\ UNCHANGED <<window_size, presult>>
       ELSE LET w == window_size_hours * (60 \div reading_interval_minutes)
            IN  /\ window_size' = w
                /\ UNCHANGED pcalled
                /\ IF BelowTwoWindows(Len(glucose_series), w)
                   THEN /\ presult' = [error |-> "Need at least " \o ToString(2 * w)
                                                 \o " data points",
                                       data_points |-> Len(glucose_series),
                                       window_size |-> w]
                        /\ ppc' = "done"
                   ELSE /\ ppc' = "dispatch"
                        /\ UNCHANGED presult
    /\ UNCHANGED <<glucose_series, reading_interval_minutes, top_k,
                   window_size_hours, detector_use_fallback, STUMPY_AVAILABLE,
                   stumpy, method>>
    /\ UNCHANGED not_pattern

\* lines 74-75
PatternFallback ==
    /\ method = "detect_recurring_patterns" /\ ppc = "dispatch"
    /\ TakesFallback(detector_use_fallback, STUMPY_AVAILABLE)
    /\ presult' = fallback_pattern_detection(glucose_series, window_size, top_k)
    /\ pcalled' = pcalled \o <<"fallback">>
    /\ ppc' = "done"
    /\ UNCHANGED <<glucose_series, reading_interval_minutes, top_k,
                   window_size_hours, detector_use_fallback, STUMPY_AVAILABLE,
                   stumpy, method, window_size>>
    /\ UNCHANGED not_pattern

\* What the try block of detect_recurring_patterns does (lines 77-134)
PatternPrimarySteps(lib) ==
    IF StumpRaises(lib, Len(glucose_series), window_size)
    THEN <<"interpolate", "stumpy.stump", "except">>
    ELSE IF PatternLoopRaises(lib, top_k)
    THEN <<"interpolate", "stumpy.stump", "stumpy.motifs", "except">>
    ELSE <<"interpolate", "stumpy.stump", "stumpy.motifs">>

\* lines 77-138: the try block and its except clause
PatternPrimary ==
    /\ method = "detect_recurring_patterns" /\ ppc = "dispatch"
    /\ ~TakesFallback(detector_use_fallback, STUMPY_AVAILABLE)
    /\ \E lib \in StumpyLibraries :
          LET steps == PatternPrimarySteps(lib)
          IN  /\ stumpy' = lib
              /\ IF steps[Len(steps)] = "except"
                 THEN /\ presult' = fallback_pattern_detection(glucose_series,
                                                               window_size, top_k)
                      /\ pcalled' = pcalled \o steps \o <<"fallback">>
                 ELSE /\ presult' = PatternPrimaryResult(Detector, glucose_series)
                      /\ pcalled' = pcalled \o steps
    /\ ppc' = "done"
    /\ UNCHANGED <<glucose_series, reading_interval_minutes, top_k,
                   window_size_hours, detector_use_fallback, STUMPY_AVAILABLE,
                   method, window_size>>
    /\ UNCHANGED not_pattern

\* lines 157-161
AnomalyCheckLength ==
    /\ method = "detect_anomalies" /\ ppc = "start"
    /\ IF TooShort(Len(glucose_series))
       THEN /\ presult' = [error |-> "Insufficient data for anomaly detection",
                           data_points |-> Len(glucose_series)]
            /\ ppc' = "done"
       ELSE /\ ppc' = "window"
            /\ UNCHANGED presult
    /\ UNCHANGED <<glucose_series, reading_interval_minutes, top_k,
                   window_size_hours, detector_use_fallback, STUMPY_AVAILABLE,
                   stumpy, method, window_size, pcalled>>
    /\ UNCHANGED not_pattern

\* lines 163-164
AnomalyWindow ==
    /\ method = "detect_anomalies" /\ ppc = "window"
    /\ IF reading_interval_minutes = 0
       THEN /\ ppc' = "raised"
            /\ pcalled' = pcalled \o <<"ZeroDivisionError">>
            /\ UNCHANGED window_size
       ELSE /\ window_size' = window_size_hours * (60 \div reading_interval_minutes)
            /\ ppc' = "dispatch"
            /\ UNCHANGED pcalled
    /\ UNCHANGED <<glucose_series, reading_interval_minutes, top_k,
                   window_size_hours, detector_use_fallback, STUMPY_AVAILABLE,
                   stumpy, method, presult>>
    /\ UNCHANGED not_pattern

\* lines 166-167
AnomalyFallback ==
    /\ method = "detect_anomalies" /\ ppc = "dispatch"
    /\ TakesFallback(detector_use_fallback, STUMPY_AVAILABLE)
    /\ presult' = fallback_anomaly_detection(glucose_series, window_size, top_k)
    /\ pcalled' = pcalled \o <<"fallback">>
    /\ ppc' = "done"
    /\ UNCHANGED <<glucose_series, reading_interval_minutes, top_k,
                   window_size_hours, detector_use_fallback, STUMPY_AVAILABLE,
                   stumpy, method, window_size>>
    /\ UNCHANGED not_pattern

\* lines 169-216: the try block and its except clause
AnomalyPrimary ==
    /\ method = "detect_anomalies" /\ ppc = "dispatch"
    /\ ~TakesFallback(detector_use_fallback, STUMPY_AVAILABLE)
    /\ \E lib \in StumpyLibraries :
          /\ stumpy' = lib
          /\ IF StumpRaises(lib, Len(glucose_series), window_size)
             THEN /\ presult' = fallback_anomaly_detection(glucose_series,
                                                           window_size, top_k)
                  /\ pcalled' = pcalled \o <<"interpolate", "stumpy.stump",
                                             "except", "fallback">>
             ELSE /\ presult' = AnomalyPrimaryResult(Detector, glucose_series, lib,
                                                     window_size, top_k)
                  /\ pcalled' = pcalled \o <<"interpolate", "stumpy.stump">>
    /\ ppc' = "done"
    /\ UNCHANGED <<glucose_series, reading_interval_minutes, top_k,
                   window_size_hours, detector_use_fallback, STUMPY_AVAILABLE,
                   method, window_size>>
    /\ UNCHANGED not_pattern

NextPattern ==
    \/ PatternCheckLength
    \/ PatternWindow
    \/ PatternFallback
    \/ PatternPrimary
    \/ AnomalyCheckLength
    \/ AnomalyWindow
    \/ AnomalyFallback
    \/ AnomalyPrimary

IdleCausal ==
    /\ data = <<>> /\ variables = <<>> /\ min_data_points = 0
    /\ tau_max = 0 /\ alpha_level = 0
    /\ use_fallback = FALSE /\ TIGRAMITE_AVAILABLE = FALSE
    /\ tigramite = NotCalled
    /\ pc = "idle" /\ var_data = <<>> /\ result = NoResult /\ called = <<>>

----------------------------------------------------------------------------
(* Specifications *)

IdleDays ==
    /\ day_series = <<>> /\ target_date = 0 /\ days_top_k = 0
    /\ dpc = "idle" /\ dresult = NoResult

IdleGraph ==
    /\ causal_links = <<>> /\ links_given = <<>>
    /\ target_variable = "" /\ links_top_k = 0
    /\ gpc = "idle" /\ graphs = <<>> /\ top_causes = <<>>

\* no second invocation
IdleCalls == parked = <<>>

IdleTable == aggregates = <<>> /\ table = <<>> /\ tpc = "idle"

IdleRuns == stored = {} /\ task_runs = <<>>

\* nothing outside the engines runs
IdleJobs == IdleTable /\ IdleRuns

\* one call of analyze_causality
Init == InitCausal /\ IdleStore /\ IdlePattern /\ IdleDays /\ IdleGraph /\ IdleCalls /\ IdleJobs

Next == NextCausal

Spec == Init /\ [][Next]_vars

\* concurrent tasks persisting links of one user
InitS == IdleCausal /\ InitStore /\ IdlePattern /\ IdleDays /\ IdleGraph /\ IdleCalls /\ IdleJobs

NextS == \E t \in Tasks : StoreLink(t) \/ Commit(t) \/ DeadlockDetected(t)

SpecStore == InitS /\ [][NextS]_vars

\* one call of detect_recurring_patterns or detect_anomalies
InitP == IdleCausal /\ IdleStore /\ InitPattern /\ IdleDays /\ IdleGraph /\ IdleCalls /\ IdleJobs

NextP == NextPattern

SpecPattern == InitP /\ [][NextP]_vars

----------------------------------------------------------------------------
(* Properties of analyze_causality *)

Returned == pc = "done"

IsAnalysis(r) == "method" \in DOMAIN r

Links == IF IsAnalysis(result) THEN result.causal_links ELSE <<>>

\* the rows of the caller's table that are complete in the requested variables
CompleteDates ==
    {data[k].date : k \in {m \in 1..Len(data) :
        \A c \in Range(variables) : ~IsNaN(data[m].vals[c])}}

PrimaryRaised ==
    tigramite.outcome \in {"raise_dataframe", "raise_run_pcmci", "short_matrix"}

\* C1: every causal link of a result has p_value < alpha_level and
\* |strength| above the minimum effect: 0.1 on the PCMCI path, 0.3 on the
\* fallback path.
C1_ThresholdInvariant ==
    (Returned /\ IsAnalysis(result)) =>
        \A k \in 1..Len(Links) :
            /\ ~IsNaN(Links[k].p_value) /\ Links[k].p_value < alpha_level
            /\ ~IsNaN(Links[k].strength)
            /\ Abs(Links[k].strength) >
                   (IF result.method = "PCMCI" THEN 10 ELSE 30)

\* a PCMCI result with links, whose matrices hold a significant cell that is
\* too weak (|val| <= 0.1) and a strong cell that is not significant
C1_Witness ==
    /\ Returned /\ IsAnalysis(result) /\ result.method = "PCMCI"
    /\ Len(Links) >= 1
    /\ \E c \in DOMAIN result.p_matrix :
          /\ ~IsNaN(result.p_matrix[c]) /\ result.p_matrix[c] < alpha_level
          /\ ~IsNaN(result.value_matrix[c]) /\ Abs(result.value_matrix[c]) = 10
    /\ \E c \in DOMAIN result.p_matrix :
          /\ ~IsNaN(result.p_matrix[c]) /\ result.p_matrix[c] >= alpha_level
          /\ ~IsNaN(result.value_matrix[c]) /\ Abs(result.value_matrix[c]) > 10

\* C2: when the dependency is unavailable, the fallback is forced, or the
\* primary method raises at any step, the result is the lag scanner's result
\* on the cleaned data under the fallback label; the primary label appears
\* only when the primary path completed without error.
C2_FallbackOnFailure ==
    (Returned /\ IsAnalysis(result)) =>
        /\ (use_fallback \/ ~TIGRAMITE_AVAILABLE \/ PrimaryRaised) =>
              /\ result.method = "Fallback Correlation"
              /\ result.causal_links = fallback_scan(Self, var_data, variables, 0)
              /\ "value_matrix" \notin DOMAIN result
        /\ result.method = "PCMCI" =>
              /\ ~use_fallback /\ TIGRAMITE_AVAILABLE
              /\ tigramite.outcome = "ok"
              /\ "except" \notin Range(called)
        /\ result.method \in {"PCMCI", "Fallback Correlation"}

\* the primary path raised while extracting links and the scanner's links
\* were returned
C2_Witness ==
    /\ Returned /\ IsAnalysis(result)
    /\ tigramite.outcome = "short_matrix"
    /\ "extract" \in Range(called)
    /\ result.method = "Fallback Correlation"
    /\ Len(Links) >= 1

\* C3: analyze_causality never raises to its caller.
C3_NeverRaises == pc # "raised"

\* C4: fewer than min_data_points rows: the insufficient-data result with the
\* observed count and the requirement, and nothing else runs; exactly
\* min_data_points complete rows: an analysis result with a method name.
C4_InsufficientDataBoundary ==
    /\ (pc # "start" /\ Len(data) < min_data_points) =>
          /\ Returned
          /\ result = [error |-> "Insufficient data points",
                       data_points |-> Len(data),
                       required |-> min_data_points]
          /\ called = <<>>
          /\ var_data = <<>>
    /\ (Returned /\ Len(data) = min_data_points /\ HasColumns(variables)
          /\ Cardinality(CompleteDates) = Len(data)) =>
          /\ IsAnalysis(result)
          /\ result.method \in {"PCMCI", "Fallback Correlation"}

\* exactly min_data_points complete rows were analysed
C4_Witness ==
    /\ Returned /\ Len(data) = min_data_points /\ HasColumns(variables)
    /\ Cardinality(CompleteDates) = Len(data)
    /\ IsAnalysis(result)
    /\ Len(Links) >= 1

\* C5: cleaning drops exactly the rows with a missing value in a requested
\* variable and imputes nothing; too few clean rows give the
\* insufficient-clean-data result with the cleaned count and no analysis.
C5_RowWiseCleaning ==
    ("dropna" \in Range(called)) =>
        /\ {var_data[k].date : k \in 1..Len(var_data)} = CompleteDates
        /\ Len(var_data) = Cardinality(CompleteDates)
        /\ \A k \in 1..Len(var_data) : \E m \in 1..Len(data) :
              /\ data[m].date = var_data[k].date
              /\ \A c \in Range(variables) : var_data[k].vals[c] = data[m].vals[c]
        /\ (pc \notin {"check_clean"} /\ Len(var_data) < min_data_points) =>
              /\ Returned
              /\ result = [error |-> "Insufficient clean data points after removing NaN",
                           data_points |-> Cardinality(CompleteDates),
                           required |-> min_data_points]
              /\ called = <<"sort_index", "select", "dropna">>

\* a table with enough rows, too few of them clean, and a row kept although
\* an unrequested column is missing in it
C5_Witness ==
    /\ Returned /\ ~IsAnalysis(result)
    /\ Len(data) >= min_data_points
    /\ result.data_points < Len(data)
    /\ result.data_points = Len(var_data)

\* C6: every analysis result reports method, links, variables, tau_max,
\* alpha_level and the cleaned sample size, and every link carries source,
\* target, lag, strength, p-value, confidence and its own sample size.
C6_ResultFields ==
    (Returned /\ IsAnalysis(result)) =>
        /\ {"method", "causal_links", "variables", "tau_max", "alpha_level",
            "sample_size"} \subseteq DOMAIN result
        /\ result.sample_size = Cardinality(CompleteDates)
        /\ result.variables = variables
        /\ result.tau_max = tau_max /\ result.alpha_level = alpha_level
        /\ \A k \in 1..Len(Links) :
              {"from", "to", "lag", "strength", "p_value", "confidence",
               "sample_size"} \subseteq DOMAIN Links[k]

\* C7: the link list of every analysis result is in non-increasing order of
\* absolute strength.
C7_Ranked ==
    (Returned /\ IsAnalysis(result)) =>
        \A k \in 1..(Len(Links) - 1) :
            Abs(Links[k].strength) >= Abs(Links[k + 1].strength)

\* C8: the confidence tier follows the fixed thresholds 0.01 and 0.05:
\* high iff p < 0.01, medium iff 0.01 <= p < 0.05, low when p >= 0.05.
C8_ConfidenceTiers ==
    (Returned /\ IsAnalysis(result)) =>
        \A k \in 1..Len(Links) :
            /\ Links[k].confidence = "high" <=> Links[k].p_value < 10
            /\ Links[k].confidence = "medium" <=>
                  (Links[k].p_value >= 10 /\ Links[k].p_value < 50)
            /\ Links[k].p_value >= 50 => Links[k].confidence = "low"

----------------------------------------------------------------------------
(* Properties of the tasks that persist links *)

UniqueKeys == \A r1 \in correlations, r2 \in correlations :
                  KeyOf(r1) = KeyOf(r2) => r1 = r2

\* C9: under any interleaving of the persisting tasks the store never holds
\* two rows with the same (user, source, target, lag), and no task inserts a
\* duplicate or fails on the key conflict: a link whose key exists is
\* updated in place and committed.
C9_UpsertUnderInterleaving ==
    /\ UniqueKeys
    /\ \A t \in DOMAIN runs : runs[t].pc # "IntegrityError"

----------------------------------------------------------------------------
(* Properties of the pattern engine *)

PatternReturned == ppc = "done"

\* a result that reports an error and the observed sample count
InsufficientData(r) ==
    /\ "error" \in DOMAIN r
    /\ "data_points" \in DOMAIN r
    /\ r.data_points = Len(glucose_series)

\* neither the matrix-profile computation nor the fallback method ran
NothingRan == pcalled = <<>> /\ stumpy = StumpyNotCalled

\* the window size the call's arguments give, in samples
RequestedWindow == window_size_hours * (60 \div reading_interval_minutes)

\* C10: with fewer than 100 samples both methods return an insufficient-data
\* result with the observed count; with at least 100 samples but fewer than
\* 2 * window_size, detect_recurring_patterns returns one that also carries
\* the window size; in both cases nothing of the analysis runs.
C10_Preconditions ==
    /\ (ppc # "start" /\ Len(glucose_series) < 100) =>
          /\ PatternReturned
          /\ InsufficientData(presult)
          /\ NothingRan
    /\ (ppc \notin {"start", "window"}
          /\ method = "detect_recurring_patterns"
          /\ Len(glucose_series) >= 100
          /\ reading_interval_minutes # 0
          /\ Len(glucose_series) < 2 * RequestedWindow) =>
          /\ PatternReturned
          /\ InsufficientData(presult)
          /\ "window_size" \in DOMAIN presult
          /\ presult.window_size = RequestedWindow
          /\ NothingRan

\* 100 samples, a window of 51 samples: the stricter check answered
C10_Witness ==
    /\ PatternReturned /\ method = "detect_recurring_patterns"
    /\ Len(glucose_series) = 100
    /\ window_size = 51
    /\ InsufficientData(presult)
    /\ presult.window_size = 51

\* C10 as stated: whenever the series has fewer than 2 * window_size samples
\* the result of detect_recurring_patterns carries the window size.
C10_AsStated ==
    (PatternReturned /\ method = "detect_recurring_patterns"
        /\ reading_interval_minutes # 0
        /\ Len(glucose_series) < 2 * RequestedWindow) =>
        /\ InsufficientData(presult)
        /\ "window_size" \in DOMAIN presult

\* C11: the pattern engine never raises to its caller: every call of
\* detect_recurring_patterns and detect_anomalies ends by returning a result
\* record, for every series and every parameter value.
C11_PatternEngineNeverRaises == ppc # "raised"

\* the call returned the result of an analysis (not an insufficient-data record)
IsPatternAnalysis(r) == "method" \in DOMAIN r

\* the fields of the primary results and of their records that consumers read
\* (tasks_ml.py reads total_data_points and each anomaly's date)
HasConsumerFields(r) ==
    /\ {"window_size_hours", "total_data_points"} \subseteq DOMAIN r
    /\ "patterns" \in DOMAIN r =>
          \A k \in 1..Len(r.patterns) :
              "duration_hours" \in DOMAIN r.patterns[k].pattern_summary
    /\ "anomalies" \in DOMAIN r =>
          \A k \in 1..Len(r.anomalies) :
              {"date", "time"} \subseteq DOMAIN r.anomalies[k]

\* C12: with the matrix-profile dependency forced unavailable, the result
\* carries a method label distinct from the primary one and every field of
\* the primary result that consumers read: window_size_hours,
\* total_data_points, pattern_summary.duration_hours, anomaly date and time.
C12_FallbackFieldParity ==
    (PatternReturned /\ IsPatternAnalysis(presult)
        /\ TakesFallback(detector_use_fallback, STUMPY_AVAILABLE)) =>
        /\ presult.method \in {"Fallback Correlation", "Fallback Z-Score"}
        /\ HasConsumerFields(presult)

\* C13: for every top_k >= 0 at most top_k pattern records and at most top_k
\* anomaly records are returned, on both paths; a pattern record lists at
\* most 5 example dates; patterns_found / anomalies_found equals the number
\* of records.
C13_TopKLimits ==
    (PatternReturned /\ IsPatternAnalysis(presult)) =>
        /\ "patterns" \in DOMAIN presult =>
              /\ Len(presult.patterns) <= top_k
              /\ presult.patterns_found = Len(presult.patterns)
              /\ \A k \in 1..Len(presult.patterns) :
                    Len(presult.patterns[k].example_dates) <= 5
        /\ "anomalies" \in DOMAIN presult =>
              /\ Len(presult.anomalies) <= top_k
              /\ presult.anomalies_found = Len(presult.anomalies)

\* the array the windowed computation of the returned result ran over:
\* glucose_series.values on the fallback path (lines 235 and 298), the
\* interpolated copy on the primary path (lines 79-84 and 170-174)
AnalysedValues ==
    IF "fallback" \in Range(pcalled) THEN Values(glucose_series)
    ELSE interpolate(Values(glucose_series))

\* C14: on every path missing values are linearly interpolated before any
\* windowed computation and never dropped: the analysed array holds no
\* missing value and has as many samples as the series supplied.
C14_InterpolatedOnEveryPath ==
    (PatternReturned /\ IsPatternAnalysis(presult)) =>
        /\ Len(AnalysedValues) = Len(glucose_series)
        /\ ~HasNaN(AnalysedValues, 1, Len(AnalysedValues))

----------------------------------------------------------------------------
(* StumpyPatternDetector.find_similar_days (lines 330-396).  A day is a     *)
(* number, its midnight the minute day * MinutesPerDay.                     *)

\* largest day number of a series or target date
MaxDate == 4

\* glucose values of a day follow one of these templates (0 / 1 values keep
\* the sums of 100 samples inside TLC's integers)
DayShape(t, k) ==
    CASE t = 1 -> IF k % 4 \in {0, 1} THEN 1 ELSE 0
      [] t = 2 -> IF k \in {10, 50} THEN 1 - (IF k % 4 \in {0, 1} THEN 1 ELSE 0)
                  ELSE IF k % 4 \in {0, 1} THEN 1 ELSE 0
      [] t = 3 -> IF k % 3 = 0 THEN 1 ELSE 0
      [] t = 4 -> 1
      [] OTHER -> IF k % 4 \in {0, 1} THEN 0 ELSE 1

\* n readings of day d, one every 10 minutes, the first at first minutes
\* past midnight
MakeDay(d, n, t, first) ==
    [k \in 1..n |-> [ts |-> d * MinutesPerDay + first + 10 * (k - 1),
                     value |-> DayShape(t, k)]]

RECURSIVE MakeDays(_)
MakeDays(plan) ==
    IF plan = <<>> THEN <<>>
    ELSE MakeDay(plan[1][1], plan[1][2], plan[1][3], plan[1][4])
         \o MakeDays(Tail(plan))

\* (day, samples, template, minute of the first reading) per day of a series
DayPlans ==
    { << <<0, MinSamples, 1, 5>>, <<1, MinSamples, 2, 5>>,
         <<2, MinSamples, 3, 5>>, <<3, MinSamples - 1, 1, 5>> >>,
      << <<0, MinSamples + 1, 1, 5>>, <<1, MinSamples, 5, 5>>,
         <<2, MinSamples, 4, 5>>, <<4, MinSamples, 2, 5>> >>,
      << <<0, MinSamples, 1, 0>>, <<1, MinSamples - 1, 2, 0>>,
         <<2, MinSamples, 3, 0>>, <<3, MinSamples, 2, 0>> >>,
      << <<0, MinSamples - 1, 1, 0>>, <<1, MinSamples, 1, 0>>,
         <<2, MinSamples, 3, 0>> >> }

\* glucose_series[date:day_end]: a label slice of a sorted DatetimeIndex
\* includes both end points
DayWindow(series, d) ==
    SelectSeq(series, LAMBDA s : /\ s.ts >= d * MinutesPerDay
                                 /\ s.ts <= (d + 1) * MinutesPerDay)

RECURSIVE AppendNew(_, _)
\* glucose_series.index.normalize().unique(): the days in order of appearance
AppendNew(series, seen) ==
    LET fresh == {DateOf(series[k].ts) : k \in 1..Len(series)} \ Range(seen)
    IN  IF fresh = {} THEN seen
        ELSE LET first == CHOOSE k \in 1..Len(series) :
                             /\ DateOf(series[k].ts) \in fresh
                             /\ \A h \in 1..(k - 1) : DateOf(series[h].ts) \notin fresh
             IN  AppendNew(series, Append(seen, DateOf(series[first].ts)))

UniqueDates(series) == AppendNew(series, <<>>)

RECURSIVE SumWeighted(_, _, _)
\* sum over v in vs of v * (number of k in 1..m with f[k] = v)
SumWeighted(vs, f, m) ==
    IF vs = {} THEN 0
    ELSE LET v == CHOOSE x \in vs : TRUE
         IN  v * Cardinality({k \in 1..m : f[k] = v}) + SumWeighted(vs \ {v}, f, m)

\* f[1] + ... + f[m]
SumFirst(f, m) == SumWeighted({f[k] : k \in 1..m}, f, m)

\* np.corrcoef(x[:m], y[:m])[0, 1] in hundredths, NaN when a value is
\* missing or a side is constant; the magnitude is the root of r * r taken
\* in hundredths, rounded down
day_corr(x, y, m) ==
    IF m <= 0 \/ HasNaN(x, 1, m) \/ HasNaN(y, 1, m) THEN NaN
    ELSE LET sx == SumFirst(x, m)
             sy == SumFirst(y, m)
             cov == m * SumFirst([k \in 1..m |-> x[k] * y[k]], m) - sx * sy
             vx == m * SumFirst([k \in 1..m |-> x[k] * x[k]], m) - sx * sx
             vy == m * SumFirst([k \in 1..m |-> y[k] * y[k]], m) - sy * sy
         IN  IF vx = 0 \/ vy = 0 THEN NaN
             ELSE LET mag == ISqrt(100 * ((100 * cov * cov) \div (vx * vy)), 100)
                  IN  IF cov < 0 THEN 0 - mag ELSE mag

\* day_data.mean() and day_data.std() (ddof = 1), in hundredths
day_mean(x) == (100 * SumFirst(x, Len(x))) \div Len(x)

day_std(x) ==
    LET n == Len(x)
        s == SumFirst(x, n)
        q == SumFirst([k \in 1..n |-> x[k] * x[k]], n)
    IN  ISqrt((10000 * (n * q - s * s)) \div (n * (n - 1)), 400)

\* the body of "for date in ...unique()" (lines 364-388) for one date
similar_day(series, target, date) ==
    LET target_data == Values(DayWindow(series, target))
        day_data == Values(DayWindow(series, date))
        min_len == Min2(Len(target_data), Len(day_data))
        c == day_corr(target_data, day_data, min_len)
    IN  IF date = target THEN <<>>
        ELSE IF Len(day_data) < MinSamples THEN <<>>
        ELSE IF IsNaN(c) THEN <<>>
        ELSE << [date |-> date, similarity_score |-> c,
                 mean_glucose |-> day_mean(day_data),
                 std_glucose |-> day_std(day_data)] >>

RECURSIVE similar_days_loop(_, _, _)
similar_days_loop(series, target, dates) ==
    IF dates = <<>> THEN <<>>
    ELSE similar_day(series, target, Head(dates))
         \o similar_days_loop(series, target, Tail(dates))

RECURSIVE InsertByScore(_, _)
InsertByScore(day, sorted) ==
    IF sorted = <<>> THEN <<day>>
    ELSE IF day.similarity_score > Head(sorted).similarity_score
         THEN <<day>> \o sorted
    ELSE <<Head(sorted)>> \o InsertByScore(day, Tail(sorted))

RECURSIVE sort_by_score(_)
\* similar_days.sort(key=similarity_score, reverse=True): stable
sort_by_score(days) ==
    IF days = <<>> THEN <<>>
    ELSE InsertByScore(days[Len(days)],
                       sort_by_score(SubSeq(days, 1, Len(days) - 1)))

\* lines 362-396
find_similar_days(series, target, k) ==
    LET similar_days == sort_by_score(
                            similar_days_loop(series, target, UniqueDates(series)))
    IN  [target_date |-> target,
         similar_days_found |-> Len(similar_days),
         top_similar_days |-> SubSeq(similar_days, 1, Min2(k, Len(similar_days)))]

InitDays ==
    /\ \E plan \in DayPlans : day_series = MakeDays(plan)
    /\ target_date \in 0..MaxDate
    /\ days_top_k \in {0, 1, 2, 5}
    /\ dpc = "start"
    /\ dresult = NoResult

\* lines 349-359
DaysCheckTarget ==
    /\ dpc = "start"
    /\ IF Len(DayWindow(day_series, target_date)) < MinSamples
       THEN /\ dresult' = [error |-> "Insufficient data for target date",
                           target_date |-> target_date]
            /\ dpc' = "done"
       ELSE /\ dpc' = "scan"
            /\ UNCHANGED dresult
    /\ UNCHANGED <<day_series, target_date, days_top_k>>
    /\ UNCHANGED not_days

\* lines 361-396
DaysScan ==
    /\ dpc = "scan"
    /\ dresult' = find_similar_days(day_series, target_date, days_top_k)
    /\ dpc' = "done"
    /\ UNCHANGED <<day_series, target_date, days_top_k>>
    /\ UNCHANGED not_days

NextDays ==
    \/ DaysCheckTarget
    \/ DaysScan

\* one call of find_similar_days
InitD == IdleCausal /\ IdleStore /\ IdlePattern /\ InitDays /\ IdleGraph /\ IdleCalls /\ IdleJobs

NextD == NextDays

SpecDays == InitD /\ [][NextD]_vars

----------------------------------------------------------------------------
(* Properties of find_similar_days *)

\* the number of samples of the series stamped on day d
SamplesOn(d) ==
    Cardinality({k \in 1..Len(day_series) : DateOf(day_series[k].ts) = d})

\* the similarity of day d with the target day
SimilarityOf(d) ==
    LET target_data == Values(DayWindow(day_series, target_date))
        day_data == Values(DayWindow(day_series, d))
    IN  day_corr(target_data, day_data, Min2(Len(target_data), Len(day_data)))

SimilarDays == dresult.top_similar_days

\* C15: a target day with fewer than 100 samples gives the insufficient-data
\* result; otherwise the list never holds the target date, holds only days
\* with at least 100 samples and a defined correlation, is in non-increasing
\* order of similarity, has at most top_k entries, and omits no qualifying
\* day more similar than a returned one.
C15_SimilarDays ==
    dpc = "done" =>
        IF SamplesOn(target_date) < 100
        THEN "error" \in DOMAIN dresult /\ dresult.target_date = target_date
        ELSE /\ "top_similar_days" \in DOMAIN dresult
             /\ Len(SimilarDays) <= days_top_k
             /\ \A k \in 1..Len(SimilarDays) :
                   /\ SimilarDays[k].date # target_date
                   /\ SamplesOn(SimilarDays[k].date) >= 100
                   /\ ~IsNaN(SimilarDays[k].similarity_score)
                   /\ k > 1 => SimilarDays[k - 1].similarity_score
                                   >= SimilarDays[k].similarity_score
             /\ \A d \in 0..MaxDate :
                   (/\ d # target_date /\ SamplesOn(d) >= 100
                    /\ ~IsNaN(SimilarityOf(d))
                    /\ \A k \in 1..Len(SimilarDays) : SimilarDays[k].date # d) =>
                       \A k \in 1..Len(SimilarDays) :
                           SimilarityOf(d) <= SimilarDays[k].similarity_score

----------------------------------------------------------------------------
(* PCMCIAnalyzer.format_causal_graph (lines 236-266) and get_top_causes     *)
(* (lines 268-293), called on a link list the caller holds.                 *)

\* longest link list passed in
MaxLinks == 3

MakeLink(x, y, lag, strength, p, confidence) ==
    [from |-> x, to |-> y, lag |-> lag, strength |-> strength,
     p_value |-> p, confidence |-> confidence]

\* the links a caller's list is drawn from
LinkPool ==
    << MakeLink("sleep_hours", "avg_glucose", 0, -80, 0, "high"),
       MakeLink("carbs_grams", "avg_glucose", 2, 60, 10, "medium"),
       MakeLink("avg_glucose", "sleep_hours", 1, 30, 10, "medium"),
       MakeLink("sleep_hours", "avg_glucose", 1, -60, 10, "medium"),
       MakeLink("avg_glucose", "avg_glucose", 1, 11, 0, "high") >>

\* the lists of at most MaxLinks distinct links of the pool, in any order
LinkLists ==
    UNION { { [k \in 1..n |-> LinkPool[pick[k]]] :
                pick \in {f \in [1..n -> 1..Len(LinkPool)] :
                             \A a, b \in 1..n : a # b => f[a] # f[b]} } :
            n \in 0..MaxLinks }

\* edge_label (line 253)
edge_label(link) ==
    IF link.lag > 0 THEN "lag=" \o ToString(link.lag) \o "d" ELSE "same day"

\* lines 254-261
edge_of(link) ==
    [source |-> link.from, target |-> link.to, label |-> edge_label(link),
     strength |-> link.strength, p_value |-> link.p_value,
     confidence |-> link.confidence]

\* the source names only
node_set_sources(links) == {links[k].from : k \in 1..Len(links)}

\* nodes after the loop (lines 246-251)
node_set(links) ==
    {links[k].from : k \in 1..Len(links)} \cup {links[k].to : k \in 1..Len(links)}

\* the orders in which "for node in nodes" can run over a Python set
NodeOrders(nodes) ==
    {order \in [1..Cardinality(nodes) -> nodes] :
        \A a, b \in 1..Cardinality(nodes) : a # b => order[a] # order[b]}

\* the nodes labelled with their position in the listing
format_causal_graph_numbered(links, order) ==
    [nodes |-> [k \in 1..Len(order) |-> [id |-> order[k], label |-> ToString(k)]],
     edges |-> [k \in 1..Len(links) |-> edge_of(links[k])]]

\* format_causal_graph, the nodes listed in the given order
format_causal_graph(links, order) ==
    [nodes |-> [k \in 1..Len(order) |-> [id |-> order[k], label |-> order[k]]],
     edges |-> [k \in 1..Len(links) |-> edge_of(links[k])]]

\* target_links before the sort (lines 285-288)
target_links(links, target) == SelectSeq(links, LAMBDA link : link.to = target)

\* get_top_causes (lines 285-293): the list returned
get_top_causes(links, target, k) ==
    LET sorted == sort_by_abs_strength(target_links(links, target))
    IN  SubSeq(sorted, 1, Min2(k, Len(sorted)))

\* the caller's list had the sort run on it
links_sorted_in_place(links, target) == sort_by_abs_strength(links)

\* the caller's list after get_top_causes: the sort runs on the new list the
\* comprehension built
links_after_top_causes(links, target) == links

NotAsked == [called |-> FALSE, links |-> <<>>]

InitGraph ==
    /\ causal_links \in LinkLists
    /\ links_given = causal_links
    /\ target_variable \in {"avg_glucose", "sleep_hours", "heart_rate"}
    /\ links_top_k \in {0, 1, 2, 5}
    /\ gpc = <<>>
    /\ graphs = <<>>
    /\ top_causes = NotAsked

\* a call of format_causal_graph on the caller's list
FormatGraph ==
    /\ Len(graphs) < 2
    /\ \E order \in NodeOrders(node_set(causal_links)) :
          graphs' = Append(graphs, format_causal_graph(causal_links, order))
    /\ gpc' = Append(gpc, "format_causal_graph")
    /\ UNCHANGED <<causal_links, links_given, target_variable, links_top_k,
                   top_causes>>
    /\ UNCHANGED not_graph

\* a call of get_top_causes on the caller's list
GetTopCauses ==
    /\ ~top_causes.called
    /\ top_causes' = [called |-> TRUE,
                      links |-> get_top_causes(causal_links, target_variable,
                                               links_top_k)]
    /\ causal_links' = links_after_top_causes(causal_links, target_variable)
    /\ gpc' = Append(gpc, "get_top_causes")
    /\ UNCHANGED <<links_given, target_variable, links_top_k, graphs>>
    /\ UNCHANGED not_graph

NextGraph ==
    \/ FormatGraph
    \/ GetTopCauses

\* calls of format_causal_graph and get_top_causes on one link list
InitG == IdleCausal /\ IdleStore /\ IdlePattern /\ IdleDays /\ InitGraph /\ IdleCalls /\ IdleJobs

NextG == NextGraph

SpecGraph == InitG /\ [][NextG]_vars

(***************************************************************************)
(* format_causal_graph: nodes and edges                                    *)
(***************************************************************************)

NodeIds(graph) == {graph.nodes[k].id : k \in 1..Len(graph.nodes)}

\* every name listed once, each node labelled with its own name
NodesOnce(graph) ==
    /\ \A a, b \in 1..Len(graph.nodes) :
          a # b => graph.nodes[a].id # graph.nodes[b].id
    /\ \A k \in 1..Len(graph.nodes) : graph.nodes[k].label = graph.nodes[k].id

\* edge k carries link k's source, target, strength, p-value and confidence
EdgeCarries(edge, link) ==
    /\ edge.source = link.from
    /\ edge.target = link.to
    /\ edge.strength = link.strength
    /\ edge.p_value = link.p_value
    /\ edge.confidence = link.confidence

\* the graph of the links, the lag label of a lagged link written by Label
GraphOf(graph, links, Label(_)) ==
    /\ \A k \in 1..Len(links) :
          links[k].from \in NodeIds(graph) /\ links[k].to \in NodeIds(graph)
    /\ \A id \in NodeIds(graph) :
          \E k \in 1..Len(links) : links[k].from = id \/ links[k].to = id
    /\ NodesOnce(graph)
    /\ Len(graph.edges) = Len(links)
    /\ \A k \in 1..Len(links) :
          /\ EdgeCarries(graph.edges[k], links[k])
          /\ graph.edges[k].label =
                IF links[k].lag = 0 THEN "same day" ELSE Label(links[k].lag)
    /\ links = <<>> => graph.nodes = <<>> /\ graph.edges = <<>>

\* C16 (as the code has it): format_causal_graph returns every source and
\* target name of the links exactly once and one edge per link with the link's
\* source, target, strength, p-value and confidence; the lag label is
\* "same day" for lag 0 and "lag={lag}d" (such as "lag=2d") otherwise; an empty
\* list gives no nodes and no edges.
C16_GraphOfLinks ==
    \A g \in 1..Len(graphs) :
        GraphOf(graphs[g], links_given, LAMBDA lag : "lag=" \o ToString(lag) \o "d")

\* a graph of a list with a repeated name, a same-day link and a 2-day link
C16_Witness ==
    /\ Len(graphs) >= 1
    /\ Len(links_given) = 3
    /\ Len(graphs[1].nodes) = 3
    /\ \E k \in 1..Len(links_given) : graphs[1].edges[k].label = "same day"
    /\ \E k \in 1..Len(links_given) :
          links_given[k].lag = 2 /\ graphs[1].edges[k].label = "lag=2d"

\* C16 as stated: the same, the label of a lagged link being "{lag}d" ("2d")
C16_AsStated ==
    \A g \in 1..Len(graphs) :
        GraphOf(graphs[g], links_given, LAMBDA lag : ToString(lag) \o "d")

(***************************************************************************)
(* get_top_causes                                                          *)
(***************************************************************************)

\* the links of the caller's list whose target is the target variable
Matching == {k \in 1..Len(links_given) : links_given[k].to = target_variable}

\* C17: get_top_causes with top_k >= 0 returns at most top_k links, each a link
\* of the input whose target is target_variable, in non-increasing order of
\* absolute strength; no link of the input with that target and a strictly
\* greater absolute strength than a returned link is left out; the caller's
\* list is unchanged in content and order.
C17_TopCauses ==
    top_causes.called =>
        LET returned == top_causes.links
        IN  /\ Len(returned) <= links_top_k
            /\ \A k \in 1..Len(returned) :
                  /\ returned[k].to = target_variable
                  /\ \E m \in Matching : links_given[m] = returned[k]
            /\ \A a, b \in 1..Len(returned) :
                  a < b => Abs(returned[a].strength) >= Abs(returned[b].strength)
            /\ \A m \in Matching : \A k \in 1..Len(returned) :
                  Abs(links_given[m].strength) > Abs(returned[k].strength)
                      => \E j \in 1..Len(returned) : returned[j] = links_given[m]
            /\ causal_links = links_given

\* a call with top_k = 2 on three links of the target, the strongest a negative
\* one standing second in the list: it is returned first, the weakest is cut
C17_Witness ==
    /\ top_causes.called
    /\ links_top_k = 2
    /\ Cardinality(Matching) = 3
    /\ links_given[1].strength = 60
    /\ links_given[2].strength = -80
    /\ Len(top_causes.links) = 2
    /\ top_causes.links[1].strength = -80
    /\ top_causes.links[2].strength = 60

(***************************************************************************)
(* format_causal_graph called twice                                        *)
(***************************************************************************)

EdgeSet(graph) == {graph.edges[k] : k \in 1..Len(graph.edges)}

NodeSet(graph) == {graph.nodes[k] : k \in 1..Len(graph.nodes)}

\* C19: two calls of format_causal_graph on the same link list give equal node
\* sets and equal edge sets, whatever the order of the listings, and the
\* caller's list is after each call what it was before.
C19_FormatTwice ==
    /\ \A a, b \in 1..Len(graphs) :
          /\ NodeSet(graphs[a]) = NodeSet(graphs[b])
          /\ EdgeSet(graphs[a]) = EdgeSet(graphs[b])
    /\ causal_links = links_given

\* two calls on a three-link list that list the nodes in different orders
C19_Witness ==
    /\ Len(graphs) = 2
    /\ Len(links_given) = 3
    /\ Len(graphs[1].nodes) = 3
    /\ graphs[1].nodes # graphs[2].nodes
    /\ graphs[1].nodes[1] = graphs[2].nodes[3]

(***************************************************************************)
(* Two invocations on one PCMCIAnalyzer and one StumpyPatternDetector.     *)
(* The instance fields (tau_max, alpha_level, use_fallback,                *)
(* window_size_hours) and the module flags are shared; the arguments and   *)
(* the local variables of a call belong to the invocation.  One invocation *)
(* runs at a time and may be suspended between any two of its steps.       *)
(***************************************************************************)

\* the arguments and locals of the running invocation
Locals ==
    [data |-> data, variables |-> variables, min_data_points |-> min_data_points,
     tigramite |-> tigramite, pc |-> pc, var_data |-> var_data,
     result |-> result, called |-> called,
     glucose_series |-> glucose_series,
     reading_interval_minutes |-> reading_interval_minutes, top_k |-> top_k,
     stumpy |-> stumpy, method |-> method, ppc |-> ppc,
     window_size |-> window_size, presult |-> presult, pcalled |-> pcalled]

\* an invocation of analyze_causality about to start
CausalStart(rows, names, required) ==
    [data |-> rows, variables |-> names, min_data_points |-> required,
     tigramite |-> NotCalled, pc |-> "start", var_data |-> <<>>,
     result |-> NoResult, called |-> <<>>,
     glucose_series |-> <<>>, reading_interval_minutes |-> 0, top_k |-> 0,
     stumpy |-> StumpyNotCalled, method |-> "none", ppc |-> "idle",
     window_size |-> 0, presult |-> NoResult, pcalled |-> <<>>]

\* an invocation of detect_recurring_patterns or detect_anomalies about to start
PatternStart(series, interval, k, m) ==
    [data |-> <<>>, variables |-> <<>>, min_data_points |-> 0,
     tigramite |-> NotCalled, pc |-> "idle", var_data |-> <<>>,
     result |-> NoResult, called |-> <<>>,
     glucose_series |-> series, reading_interval_minutes |-> interval, top_k |-> k,
     stumpy |-> StumpyNotCalled, method |-> m, ppc |-> "start",
     window_size |-> 0, presult |-> NoResult, pcalled |-> <<>>]

\* the invocations tried
CallStarts ==
    { CausalStart(MakeTable(MaxRows - 1, <<1, 2, 4>>,
                     [nulls |-> {}, gapAt |-> 0, swapped |-> FALSE]),
                  names, MaxRows - 2) :
        names \in {<<"sleep_hours", "avg_glucose">>, <<"sleep_hours", "heart_rate">>} }
    \cup
    { CausalStart(MakeTable(MaxRows, <<5, 6, 1>>,
                     [nulls |-> {<<2, "sleep_hours">>}, gapAt |-> 0,
                      swapped |-> FALSE]),
                  <<"sleep_hours", "avg_glucose">>, MaxRows - 2) }
    \cup
    { PatternStart(MakeSeries(MinSamples, 1, {}), interval, 1, m) :
        interval \in {20, 0},
        m \in {"detect_recurring_patterns", "detect_anomalies"} }
    \cup
    { PatternStart(MakeSeries(MinSamples + 1, 3, {1, 40}), 20, 1,
                   "detect_recurring_patterns") }

\* the running invocation has the arguments and locals of frame
Running(frame) ==
    /\ data = frame.data /\ variables = frame.variables
    /\ min_data_points = frame.min_data_points /\ tigramite = frame.tigramite
    /\ pc = frame.pc /\ var_data = frame.var_data /\ result = frame.result
    /\ called = frame.called /\ glucose_series = frame.glucose_series
    /\ reading_interval_minutes = frame.reading_interval_minutes
    /\ top_k = frame.top_k /\ stumpy = frame.stumpy /\ method = frame.method
    /\ ppc = frame.ppc /\ window_size = frame.window_size
    /\ presult = frame.presult /\ pcalled = frame.pcalled

\* var_data kept on the analyzer: a resumed invocation finds the other's
Resumed_shared_var_data(frame) == [frame EXCEPT !.var_data = var_data]

\* what a resumed invocation finds: its own arguments and locals
Resumed(frame) == frame

InitCalls ==
    \* PCMCIAnalyzer(tau_max, alpha_level), StumpyPatternDetector(window_size_hours)
    /\ tau_max = MaxTau /\ alpha_level = 50
    /\ TIGRAMITE_AVAILABLE \in BOOLEAN /\ use_fallback = ~TIGRAMITE_AVAILABLE
    /\ window_size_hours = 1
    /\ STUMPY_AVAILABLE \in BOOLEAN /\ detector_use_fallback = ~STUMPY_AVAILABLE
    /\ \E first \in CallStarts, second \in CallStarts :
          Running(first) /\ parked = second

\* the running invocation is suspended and the other one goes on
Switch ==
    /\ parked # <<>>
    /\ parked' = Locals
    /\ LET frame == Resumed(parked)
       IN  /\ data' = frame.data /\ variables' = frame.variables
           /\ min_data_points' = frame.min_data_points
           /\ tigramite' = frame.tigramite
           /\ pc' = frame.pc /\ var_data' = frame.var_data
           /\ result' = frame.result /\ called' = frame.called
           /\ glucose_series' = frame.glucose_series
           /\ reading_interval_minutes' = frame.reading_interval_minutes
           /\ top_k' = frame.top_k /\ stumpy' = frame.stumpy
           /\ method' = frame.method /\ ppc' = frame.ppc
           /\ window_size' = frame.window_size
           /\ presult' = frame.presult /\ pcalled' = frame.pcalled
    /\ UNCHANGED <<tau_max, alpha_level, use_fallback, TIGRAMITE_AVAILABLE,
                   window_size_hours, detector_use_fallback, STUMPY_AVAILABLE>>
    /\ UNCHANGED <<store_vars, days_vars, graph_vars, table_vars, runs_vars>>

InitC == InitCalls /\ IdleStore /\ IdleDays /\ IdleGraph /\ IdleJobs

NextC ==
    \/ NextCausal
    \/ NextPattern
    \/ Switch

SpecCalls == InitC /\ [][NextC]_vars

(***************************************************************************)
(* The three methods as functions of their arguments, the instance fields, *)
(* the module flag and the library's answer                                *)
(***************************************************************************)

Raised == [raised |-> TRUE]

\* analyze_causality (lines 41-123)
analyze_causality(rows, names, required, self, forced, available, lib) ==
    IF TooFew(Len(rows), required)
    THEN [error |-> "Insufficient data points",
          data_points |-> Len(rows), required |-> required]
    ELSE IF ~HasColumns(names) THEN Raised
    ELSE LET clean == dropna(SelectColumns(sort_index(rows), names))
         IN  IF TooFew(Len(clean), required)
             THEN [error |-> "Insufficient clean data points after removing NaN",
                   data_points |-> Len(clean), required |-> required]
             ELSE IF \/ TakesFallback(forced, available)
                     \/ lib.outcome \in {"raise_dataframe", "raise_run_pcmci"}
                     \/ ExtractRaises(self, run_pcmci(lib, Len(names), self.tau_max),
                                      names)
             THEN fallback_correlation_analysis(self, clean, names)
             ELSE PrimaryResult(self, clean, names,
                                run_pcmci(lib, Len(names), self.tau_max))

\* detect_recurring_patterns (lines 40-138)
detect_recurring_patterns(series, interval, k, self, forced, available, lib) ==
    IF TooShort(Len(series))
    THEN [error |-> "Insufficient data for pattern detection",
          data_points |-> Len(series)]
    ELSE IF interval = 0 THEN Raised
    ELSE LET w == self.window_size_hours * (60 \div interval)
         IN  IF BelowTwoWindows(Len(series), w)
             THEN [error |-> "Need at least " \o ToString(2 * w) \o " data points",
                   data_points |-> Len(series), window_size |-> w]
             ELSE IF \/ TakesFallback(forced, available)
                     \/ StumpRaises(lib, Len(series), w)
                     \/ PatternLoopRaises(lib, k)
             THEN fallback_pattern_detection(series, w, k)
             ELSE PatternPrimaryResult(self, series)

\* detect_anomalies (lines 140-216)
detect_anomalies(series, interval, k, self, forced, available, lib) ==
    IF TooShort(Len(series))
    THEN [error |-> "Insufficient data for anomaly detection",
          data_points |-> Len(series)]
    ELSE IF interval = 0 THEN Raised
    ELSE LET w == self.window_size_hours * (60 \div interval)
         IN  IF TakesFallback(forced, available) \/ StumpRaises(lib, Len(series), w)
             THEN fallback_anomaly_detection(series, w, k)
             ELSE AnomalyPrimaryResult(self, series, lib, w, k)

\* what a finished call gave its caller
Outcome(position, returned) == IF position = "raised" THEN Raised ELSE returned

Finished(position) == position \in {"done", "raised"}

\* the instance fields and module flags both invocations read
Shared == <<tau_max, alpha_level, use_fallback, TIGRAMITE_AVAILABLE,
            window_size_hours, detector_use_fallback, STUMPY_AVAILABLE>>

\* a finished call gave what the method gives for its own arguments
OwnResult ==
    /\ Finished(pc) =>
          Outcome(pc, result) =
              analyze_causality(data, variables, min_data_points, Self,
                                use_fallback, TIGRAMITE_AVAILABLE, tigramite)
    /\ Finished(ppc) /\ method = "detect_recurring_patterns" =>
          Outcome(ppc, presult) =
              detect_recurring_patterns(glucose_series, reading_interval_minutes,
                                        top_k, Detector, detector_use_fallback,
                                        STUMPY_AVAILABLE, stumpy)
    /\ Finished(ppc) /\ method = "detect_anomalies" =>
          Outcome(ppc, presult) =
              detect_anomalies(glucose_series, reading_interval_minutes, top_k,
                               Detector, detector_use_fallback,
                               STUMPY_AVAILABLE, stumpy)

\* the two invocations were given the same arguments and the same library answers
SameCall ==
    /\ parked # <<>>
    /\ parked.data = data /\ parked.variables = variables
    /\ parked.min_data_points = min_data_points
    /\ parked.glucose_series = glucose_series
    /\ parked.reading_interval_minutes = reading_interval_minutes
    /\ parked.top_k = top_k /\ parked.method = method
    /\ parked.tigramite = tigramite /\ parked.stumpy = stumpy

BothFinished ==
    /\ parked # <<>>
    /\ Finished(pc) \/ Finished(ppc)
    /\ Finished(parked.pc) \/ Finished(parked.ppc)

Dates(rows) == [k \in 1..Len(rows) |-> rows[k].date]

\* the pairs that enter the correlation of candidate (names[i], names[j], lag)
\* (lines 148-165), each with the date x's value was recorded on and the date
\* y's value was recorded on
PairsUsed(rows, names, i, j, lag) ==
    LET x_shifted == IF lag > 0 THEN shift(Column(rows, names[i]), lag)
                     ELSE Column(rows, names[i])
        x_dates == IF lag > 0 THEN shift(Dates(rows), lag) ELSE Dates(rows)
        mask == valid_mask(x_shifted, Column(rows, names[j]))
    IN  IF i = j \/ (lag = 0 /\ i >= j) \/ Cardinality(mask) < MinValidPairs
        THEN {}
        ELSE {[x_date |-> x_dates[k], y_date |-> rows[k].date] : k \in mask}

\* the date index of the cleaned table has no gap
Contiguous(rows) ==
    \A k \in 1..(Len(rows) - 1) : rows[k + 1].date = rows[k].date + 1

ScannerRan == pc = "done" /\ \E k \in 1..Len(called) : called[k] = "fallback"

\* C20: in the lag scanner every pair of values that enters the correlation of
\* a candidate (x, y, lag) is x's value on calendar date d - lag and y's value
\* on calendar date d, also when the cleaned table has gaps in its dates.
C20_LagIsCalendarDays ==
    ScannerRan =>
        \A i, j \in 1..Len(variables), lag \in 0..tau_max :
            \A pair \in PairsUsed(var_data, variables, i, j, lag) :
                pair.x_date = pair.y_date - lag

(***************************************************************************)
(* The lag scanner: which candidates it emits                              *)
(***************************************************************************)

\* valid_mask.sum(), corr and p_value of candidate (names[i], names[j], lag)
\* (lines 149-168)
CandidateStats(rows, names, i, j, lag) ==
    LET x_shifted == IF lag > 0 THEN shift(Column(rows, names[i]), lag)
                     ELSE Column(rows, names[i])
        ys == Column(rows, names[j])
        mask == valid_mask(x_shifted, ys)
        r == corr(x_shifted, ys, mask)
    IN  [n |-> Cardinality(mask), corr |-> r,
         p_value |-> p_value_of(r, Cardinality(mask))]

\* the candidates the loops reach (lines 142-152)
Evaluated(names, i, j, lag) == i # j /\ ~(lag = 0 /\ i >= j)

\* the links of the result for (names[i], names[j], lag)
LinksFor(links, names, i, j, lag) ==
    {k \in 1..Len(links) :
        links[k].from = names[i] /\ links[k].to = names[j] /\ links[k].lag = lag}

\* C21: the lag scanner evaluates every lag from 0 to tau_max; a candidate
\* with 10 or more valid pairs (exactly 10 included) is emitted when
\* |correlation| > 0.3 and p < alpha_level, and only then; a candidate with
\* fewer than 10 valid pairs emits nothing and the others are not affected.
C21_ScannerEmits ==
    ScannerRan =>
        \A i, j \in 1..Len(variables), lag \in 0..tau_max :
            Evaluated(variables, i, j, lag) =>
                LET s == CandidateStats(var_data, variables, i, j, lag)
                    emitted == LinksFor(result.causal_links, variables, i, j, lag) # {}
                IN  IF s.n < MinValidPairs THEN ~emitted
                    ELSE emitted <=> /\ ~IsNaN(s.corr) /\ Abs(s.corr) > 30
                                     /\ ~IsNaN(s.p_value) /\ s.p_value < alpha_level

\* position of a name in the variable list
IndexIn(names, name) == CHOOSE k \in 1..Len(names) : names[k] = name

\* the candidate passes the gates of lines 162-174
PassesGates(rows, names, i, j, lag) ==
    LET s == CandidateStats(rows, names, i, j, lag)
    IN  /\ s.n > MinValidPairs
        /\ ~IsNaN(s.corr) /\ Abs(s.corr) > 30
        /\ ~IsNaN(s.p_value) /\ s.p_value < alpha_level

\* C22: over a list of distinct variables the scanner's links have no link
\* from a variable to itself, at most one link per (source, target, lag), and
\* at lag 0 only links whose source precedes the target in the variable list,
\* so never both (A, B, 0) and (B, A, 0); at every lag above 0 both orderings
\* are evaluated, each emitted exactly when it passes the gates itself.
C22_ScannerDedup ==
    ScannerRan =>
        LET links == result.causal_links
        IN  /\ \A k \in 1..Len(links) : links[k].from # links[k].to
            /\ \A a, b \in 1..Len(links) :
                  a # b => <<links[a].from, links[a].to, links[a].lag>>
                           # <<links[b].from, links[b].to, links[b].lag>>
            /\ \A k \in 1..Len(links) :
                  links[k].lag = 0 =>
                      /\ IndexIn(variables, links[k].from)
                            < IndexIn(variables, links[k].to)
                      /\ \A m \in 1..Len(links) :
                            ~(links[m].lag = 0 /\ links[m].from = links[k].to
                              /\ links[m].to = links[k].from)
            /\ \A i, j \in 1..Len(variables), lag \in 1..tau_max :
                  i # j => (LinksFor(links, variables, i, j, lag) # {}
                               <=> PassesGates(var_data, variables, i, j, lag))

\* a scan that emits a lag-0 link and, at one lag above 0, links in both
\* directions between the same two variables
C22_Witness ==
    /\ ScannerRan
    /\ \E k \in 1..Len(result.causal_links) : result.causal_links[k].lag = 0
    /\ \E a, b \in 1..Len(result.causal_links) :
          /\ result.causal_links[a].lag > 0
          /\ result.causal_links[a].lag = result.causal_links[b].lag
          /\ result.causal_links[a].from = result.causal_links[b].to
          /\ result.causal_links[a].to = result.causal_links[b].from

\* the correlation is exactly +1 or -1, or undefined (a series of zero variance)
Degenerate(r) == IsNaN(r) \/ Abs(r) = 100

\* C23: in the lag scanner a candidate whose correlation is exactly +1 or -1,
\* or undefined because a series has zero variance, is skipped: the t-statistic
\* is not obtained by dividing by sqrt(1 - r^2) = 0 and no link with an
\* infinite or NaN statistic is emitted.
C23_DegenerateSkipped ==
    ScannerRan =>
        /\ \A i, j \in 1..Len(variables), lag \in 0..tau_max :
              Evaluated(variables, i, j, lag)
              /\ Degenerate(CandidateStats(var_data, variables, i, j, lag).corr)
                 => LinksFor(result.causal_links, variables, i, j, lag) = {}
        /\ \A k \in 1..Len(result.causal_links) :
              ~Degenerate(result.causal_links[k].strength)

(***************************************************************************)
(* Fallback anomaly detection: which points are returned                   *)
(***************************************************************************)

FallbackAnomaliesReturned ==
    /\ ppc = "done" /\ method = "detect_anomalies"
    /\ "anomalies" \in DOMAIN presult
    /\ presult.method = "Fallback Z-Score"

\* the points of the series with a defined rolling z-score
DefinedPoints ==
    {i \in 1..Len(glucose_series) :
        ~IsNaN(z_score(Values(glucose_series), i, window_size))}

\* the points the returned anomalies stand for
ReturnedPoints ==
    {i \in 1..Len(glucose_series) :
        \E a \in 1..Len(presult.anomalies) :
            presult.anomalies[a].timestamp = glucose_series[i].ts}

\* C24: fallback anomaly detection returns the min(top_k, number of points
\* with a defined z-score) points of largest |z|, in non-increasing |z|, with
\* anomaly_id the 1-based position; points with an undefined z-score take no
\* slot, so a series with a defined z-score and top_k >= 1 yields an anomaly.
C24_TopByZScore ==
    FallbackAnomaliesReturned =>
        LET anomalies == presult.anomalies
            vals == Values(glucose_series)
        IN  /\ Len(anomalies) = Min2(top_k, Cardinality(DefinedPoints))
            /\ \A a \in 1..Len(anomalies) : anomalies[a].anomaly_id = a
            /\ \A a, b \in 1..Len(anomalies) :
                  a < b => anomalies[a].z_score >= anomalies[b].z_score
            /\ ReturnedPoints \subseteq DefinedPoints
            /\ \A i \in ReturnedPoints, m \in DefinedPoints \ ReturnedPoints :
                  z_score(vals, i, window_size) >= z_score(vals, m, window_size)

(***************************************************************************)
(* The window size in samples                                              *)
(***************************************************************************)

\* window_size has been computed (lines 64-65 and 163-164)
WindowComputed ==
    /\ method \in {"detect_recurring_patterns", "detect_anomalies"}
    /\ reading_interval_minutes > 0
    /\ ~TooShort(Len(glucose_series))
    /\ ppc \in {"dispatch", "done"}

\* C25: for every positive reading interval the window size in samples is
\* window_hours * 60 / reading_interval_minutes (the whole samples that fit in
\* the window), also when the interval does not divide 60 or exceeds it: it is
\* not built from a truncated samples-per-hour count, and it is not 0 when
\* window_hours * 60 >= reading_interval_minutes.
C25_WindowSize ==
    WindowComputed =>
        /\ window_size = (window_size_hours * 60) \div reading_interval_minutes
        /\ window_size_hours * 60 >= reading_interval_minutes => window_size # 0

(***************************************************************************)
(* The analysis table built from the stored daily aggregates               *)
(* (tasks_ml.py 56-72, routes/advanced_insights.py 67-78), and the job     *)
(* that stores them (tasks.py aggregate_daily_data).  A database NULL and  *)
(* Python's None are written NaN.                                          *)
(***************************************************************************)

MaxAggregates == 2     \* days the aggregation job is run for

\* what the day's queries return (tasks.py 86-147): an AVG or SUM over no
\* rows is NULL
DaySums ==
    [avg_glucose : {NaN, 110}, total_sleep : {NaN, 420},
     total_exercise : {NaN, 30}, total_carbs : {NaN, 0, 150}]

\* the row aggregate_daily_data stores (tasks.py 150-181);
\* total_exercise = session.execute(activity_query).scalar() or 0 (line 134)
aggregate_row(d, sums) ==
    [date |-> d,
     avg_glucose |-> sums.avg_glucose,
     total_sleep_minutes |-> sums.total_sleep,
     total_exercise_minutes |-> IF IsNaN(sums.total_exercise) \/ sums.total_exercise = 0
                                THEN 0 ELSE sums.total_exercise,
     total_carbs_grams |-> sums.total_carbs]

\* "x if agg.field else None": None and 0 are both false
Truthy(v) == ~IsNaN(v) /\ v # 0

\* one dictionary of the DataFrame comprehension (tasks_ml.py 57-65)
frame_row(agg) ==
    [date |-> agg.date,
     vals |-> [avg_glucose |-> IF Truthy(agg.avg_glucose)
                               THEN agg.avg_glucose ELSE NaN,
               sleep_hours |-> IF Truthy(agg.total_sleep_minutes)
                               THEN agg.total_sleep_minutes \div 60 ELSE NaN,
               exercise_minutes |-> IF Truthy(agg.total_exercise_minutes)
                                    THEN agg.total_exercise_minutes ELSE NaN,
               carbs_grams |-> IF Truthy(agg.total_carbs_grams)
                               THEN agg.total_carbs_grams ELSE NaN]]

\* the rows with the row of date d replaced or added, ordered by date
upsert_aggregate(rows, row) ==
    sort_index(SelectSeq(rows, LAMBDA r : r.date # row.date) \o <<row>>)

InitTable == aggregates = <<>> /\ table = <<>> /\ tpc = "collect"

\* aggregate_daily_data for one day: create or update the day's row
AggregateDailyData ==
    /\ tpc = "collect"
    /\ \E d \in 1..MaxAggregates, sums \in DaySums :
          aggregates' = upsert_aggregate(aggregates, aggregate_row(d, sums))
    /\ UNCHANGED <<table, tpc>>
    /\ UNCHANGED <<causal_vars, store_vars, pattern_vars, days_vars, graph_vars,
                   calls_vars, runs_vars>>

\* the task (or the route) builds df and drops the incomplete rows
BuildTable ==
    /\ tpc = "collect"
    /\ table' = dropna([k \in 1..Len(aggregates) |-> frame_row(aggregates[k])])
    /\ tpc' = "built"
    /\ UNCHANGED aggregates
    /\ UNCHANGED <<causal_vars, store_vars, pattern_vars, days_vars, graph_vars,
                   calls_vars, runs_vars>>

InitT == IdleCausal /\ IdleStore /\ IdlePattern /\ IdleDays /\ IdleGraph
         /\ IdleCalls /\ InitTable /\ IdleRuns

NextT ==
    \/ AggregateDailyData
    \/ BuildTable

SpecTable == InitT /\ [][NextT]_vars

\* no requested field of the stored row is NULL
AllPresent(agg) ==
    /\ ~IsNaN(agg.avg_glucose) /\ ~IsNaN(agg.total_sleep_minutes)
    /\ ~IsNaN(agg.total_exercise_minutes) /\ ~IsNaN(agg.total_carbs_grams)

TableDates == {table[k].date : k \in 1..Len(table)}

\* C26: a daily aggregate row is left out of the analysis table only when a
\* requested field is NULL: a row whose fields are all present is kept, also
\* when a field is 0 (such as the 0 exercise minutes the job stores), and the
\* 0 stays a 0.
C26_ZeroIsNotMissing ==
    tpc = "built" =>
        \A k \in 1..Len(aggregates) :
            AllPresent(aggregates[k]) =>
                \E r \in 1..Len(table) :
                    /\ table[r].date = aggregates[k].date
                    /\ table[r].vals.exercise_minutes
                          = aggregates[k].total_exercise_minutes
                    /\ table[r].vals.carbs_grams = aggregates[k].total_carbs_grams

(***************************************************************************)
(* The correlations table of one user over successive runs of              *)
(* compute_correlations (tasks.py) and run_pcmci_analysis (tasks_ml.py).   *)
(* The runs follow one another; each is one transaction.                   *)
(***************************************************************************)

MaxRuns == 3           \* task runs in a history

TaskSelf == [tau_max |-> 1, alpha_level |-> 50]

TaskNames == <<"sleep_quality", "avg_glucose">>

\* len(df) of the table the task analysed
TaskSampleSize == 12

TaskRows == MakeTable(TaskSampleSize, <<1, 2, 4>>,
                      [nulls |-> {}, gapAt |-> 0, swapped |-> FALSE])

\* what analyze_causality hands back to run_pcmci_analysis (line 88): a result
\* with links, or an error dictionary
EngineResults ==
    { PrimaryResult(TaskSelf, TaskRows, TaskNames,
                    run_pcmci([outcome |-> "ok", seed |-> s], Len(TaskNames),
                              TaskSelf.tau_max)) : s \in 1..NumSeeds }
    \cup { [error |-> "Insufficient data points", data_points |-> TaskSampleSize,
            required |-> TaskSampleSize + 1] }

\* the row written for a link (tasks_ml.py 110-126)
link_row(link, results) ==
    [factor_x |-> link.from, factor_y |-> link.to, lag_days |-> link.lag,
     correlation_coefficient |-> link.strength, p_value |-> link.p_value,
     sample_size |-> results.sample_size, confidence_level |-> link.confidence]

\* update the row with the key or add a new one
upsert_row(rows, row) == {r \in rows : KeyOf(r) # KeyOf(row)} \cup {row}

RECURSIVE store_rows(_, _)
store_rows(rows, new) ==
    IF new = <<>> THEN rows
    ELSE store_rows(upsert_row(rows, Head(new)), Tail(new))

\* compute_correlations: features and targets (tasks.py 267-268)
features == <<"sleep_duration", "sleep_quality", "exercise_minutes", "carbs_grams">>

targets == <<"avg_glucose", "std_glucose">>

\* df[feature].corr(df[target]) of the user's data, drawn from a family of
\* data sets indexed by a seed
corr_of(seed, f, t) == ValGrid[((3 * f + 5 * t + seed) % Len(ValGrid)) + 1]

\* tasks.py 283-288; a NaN p-value fails both comparisons
confidence_level_of(p) ==
    IF ~IsNaN(p) /\ p < 10 THEN "high"
    ELSE IF ~IsNaN(p) /\ p < 50 THEN "medium"
    ELSE "low"

\* the row compute_correlations saves for a feature and a target (275-318)
correlation_row(seed, f, t) ==
    LET r == corr_of(seed, f, t)
        p == p_value_of(r, TaskSampleSize)
    IN  [factor_x |-> features[f], factor_y |-> targets[t], lag_days |-> 0,
         correlation_coefficient |-> r, p_value |-> p,
         sample_size |-> TaskSampleSize,
         confidence_level |-> confidence_level_of(p)]

\* the rows in loop order: for feature in features: for target in targets
correlation_rows(seed) ==
    [k \in 1..(Len(features) * Len(targets)) |->
        correlation_row(seed, ((k - 1) \div Len(targets)) + 1,
                        ((k - 1) % Len(targets)) + 1)]

InitRuns == stored = {} /\ task_runs = <<>>

\* one run of run_pcmci_analysis: analyse, return the error, or store the
\* links and commit
RunPcmciAnalysis ==
    /\ Len(task_runs) < MaxRuns
    /\ \E results \in EngineResults :
          IF "error" \in DOMAIN results
          THEN /\ UNCHANGED stored
               /\ task_runs' = Append(task_runs,
                                      [task |-> "run_pcmci_analysis",
                                       status |-> "error", results |-> results,
                                       stored |-> stored])
          ELSE LET rows == [k \in 1..Len(results.causal_links) |->
                              link_row(results.causal_links[k], results)]
               IN  /\ stored' = store_rows(stored, rows)
                   /\ task_runs' = Append(task_runs,
                                          [task |-> "run_pcmci_analysis",
                                           status |-> "success",
                                           results |-> results,
                                           stored |-> store_rows(stored, rows)])
    /\ UNCHANGED <<causal_vars, store_vars, pattern_vars, days_vars, graph_vars,
                   calls_vars, table_vars>>

\* one run of compute_correlations: every feature-target pair is saved
ComputeCorrelations ==
    /\ Len(task_runs) < MaxRuns
    /\ \E seed \in 1..NumSeeds :
          /\ stored' = store_rows(stored, correlation_rows(seed))
          /\ task_runs' = Append(task_runs,
                                 [task |-> "compute_correlations",
                                  status |-> "success",
                                  results |-> correlation_rows(seed),
                                  stored |-> store_rows(stored, correlation_rows(seed))])
    /\ UNCHANGED <<causal_vars, store_vars, pattern_vars, days_vars, graph_vars,
                   calls_vars, table_vars>>

InitR == IdleCausal /\ IdleStore /\ IdlePattern /\ IdleDays /\ IdleGraph
         /\ IdleCalls /\ IdleTable /\ InitRuns

NextR ==
    \/ RunPcmciAnalysis
    \/ ComputeCorrelations

SpecRuns == InitR /\ [][NextR]_vars

\* C27: after any sequence of compute_correlations and run_pcmci_analysis runs
\* every row of the correlations table has a p-value below 0.05 and an
\* absolute coefficient above the minimum-effect threshold, and no row has
\* confidence 'low'.
C27_StoredRowsPassGate ==
    \A row \in stored :
        /\ ~IsNaN(row.p_value) /\ row.p_value < 50
        /\ ~IsNaN(row.correlation_coefficient)
        /\ Abs(row.correlation_coefficient) > 10
        /\ row.confidence_level # "low"

\* the latest task run
LatestRun == task_runs[Len(task_runs)]

PcmciSucceeded ==
    /\ task_runs # <<>>
    /\ LatestRun.task = "run_pcmci_analysis"
    /\ LatestRun.status = "success"

\* the stored rows whose two factors are variables of the run
RowsUnder(names) ==
    {row \in stored : row.factor_x \in Range(names) /\ row.factor_y \in Range(names)}

\* C28: after run_pcmci_analysis returns success the rows stored under the
\* run's variable names are exactly the run's links, each under its (source,
\* target, lag) key with the run's strength, p-value and confidence; a link of
\* an earlier run that this run did not find is gone; a second run on
\* unchanged data leaves the set of stored rows as it was.
C28_StoreMirrorsLatestRun ==
    PcmciSucceeded =>
        LET results == LatestRun.results
            links == results.causal_links
        IN  /\ \A k \in 1..Len(links) : link_row(links[k], results) \in stored
            /\ \A row \in RowsUnder(results.variables) :
                  \E k \in 1..Len(links) : link_row(links[k], results) = row
            /\ Len(task_runs) >= 2
               /\ task_runs[Len(task_runs) - 1].task = "run_pcmci_analysis"
               /\ task_runs[Len(task_runs) - 1].results = results
               => stored = task_runs[Len(task_runs) - 1].stored

\* the samples of the series stamped on day d: [00:00 of d, 00:00 of d + 1)
OnDay(d) == SelectSeq(day_series, LAMBDA s : DateOf(s.ts) = d)

\* the windows find_similar_days has extracted: the target day's, and every
\* candidate day's once the scan has run
WindowDays ==
    IF dpc = "start" THEN {}
    ELSE IF "top_similar_days" \in DOMAIN dresult
         THEN {target_date} \cup Range(UniqueDates(day_series))
         ELSE {target_date}

\* C29: the window extracted for a calendar day holds exactly the samples
\* stamped on that day, so a sample stamped at midnight is in one day's
\* window only and no sample is in the windows of two different days.
C29_WindowIsOneDay ==
    /\ \A d \in WindowDays : DayWindow(day_series, d) = OnDay(d)
    /\ \A d, e \in WindowDays :
          d # e => \A k \in 1..Len(day_series) :
                      ~ (/\ day_series[k].ts >= d * MinutesPerDay
                         /\ day_series[k].ts <= (d + 1) * MinutesPerDay
                         /\ day_series[k].ts >= e * MinutesPerDay
                         /\ day_series[k].ts <= (e + 1) * MinutesPerDay)

----------------------------------------------------------------------------
(* One call of any of the four engine methods, seen from the caller: the   *)
(* table or series the caller passed is data, glucose_series or day_series *)

\* no engine method is running on the analyzer or the detector
NoCall ==
    [PatternStart(<<>>, 0, 0, "none") EXCEPT !.ppc = "idle"]

\* the invocations tried: those of CallStarts, an unsorted table with a
\* missing cell, tables too short before and after dropna, a short series
InputStarts ==
    CallStarts
    \cup
    { CausalStart(MakeTable(MaxRows, <<1, 2, 4>>,
                     [nulls |-> {<<3, "sleep_hours">>}, gapAt |-> 0,
                      swapped |-> TRUE]),
                  <<"sleep_hours", "avg_glucose">>, MaxRows - 2),
      CausalStart(MakeTable(MaxRows - 2, <<1, 2, 4>>,
                     [nulls |-> {}, gapAt |-> 0, swapped |-> TRUE]),
                  <<"sleep_hours", "avg_glucose">>, MaxRows - 1),
      CausalStart(MakeTable(MaxRows - 1, <<5, 6, 1>>,
                     [nulls |-> {<<2, "sleep_hours">>, <<5, "avg_glucose">>},
                      gapAt |-> 0, swapped |-> FALSE]),
                  <<"sleep_hours", "avg_glucose">>, MaxRows - 2) }
    \cup
    { PatternStart(MakeSeries(MinSamples - 1, 3, {1, 40}), 20, 1, m) :
        m \in {"detect_recurring_patterns", "detect_anomalies"} }

InitInputs ==
    /\ tau_max = MaxTau /\ alpha_level = 50
    /\ TIGRAMITE_AVAILABLE \in BOOLEAN /\ use_fallback = ~TIGRAMITE_AVAILABLE
    /\ window_size_hours = 1
    /\ STUMPY_AVAILABLE \in BOOLEAN /\ detector_use_fallback = ~STUMPY_AVAILABLE
    /\ \/ (\E call \in InputStarts : Running(call)) /\ IdleDays
       \/ Running(NoCall) /\ InitDays

InitI == InitInputs /\ IdleStore /\ IdleGraph /\ IdleCalls /\ IdleJobs

NextI ==
    \/ NextCausal
    \/ NextPattern
    \/ NextDays

SpecInputs == InitI /\ [][NextI]_vars

\* C30: no step of analyze_causality changes the rows, values or row order
\* of the table the caller passed, and no step of detect_recurring_patterns,
\* detect_anomalies or find_similar_days changes a value, missing ones
\* included, of the series the caller passed.
C30_InputsNotMutated ==
    [][/\ data' = data
       /\ glucose_series' = glucose_series
       /\ day_series' = day_series]_vars

\* a finished fallback analysis of a table passed unsorted and with a missing
\* cell: the engine worked on a sorted table without the incomplete row
C30_Witness ==
    /\ pc = "done"
    /\ "causal_links" \in DOMAIN result
    /\ sort_index(data) # data
    /\ Len(var_data) < Len(data)

====
